---- MODULE Spec2Model ----
(***************************************************************************)
(* A model of moon-build-dashboard: the `stat` run (src/src/main.rs) that  *)
(* installs a toolchain channel, builds every source against the           *)
(* OS x backend x command matrix and writes the dashboard file.            *)
(*                                                                         *)
(* Conventions.                                                            *)
(*   Result<T, E>   Ok(v)  is [ok |-> TRUE,  val |-> v]                    *)
(*                  Err(e) is [ok |-> FALSE, err |-> e]                    *)
(*   Option<T>      Some(v) is <<v>>, None is <<>>                         *)
(*   String         names and urls are sequences of tokens, so that        *)
(*                  str::contains is a real substring search; the empty    *)
(*                  string "" of a time stamp is <<>> and a time stamp     *)
(*                  taken at clock value t is <<t>>                        *)
(*   external process   its outcome is "ok" (exit 0), "nonzero" (any other *)
(*                  exit status) or "io" (it could not be started); every  *)
(*                  invocation takes one tick of `clock` and is appended   *)
(*                  to `log`                                               *)
(***************************************************************************)
EXTENDS Integers, Sequences, FiniteSets, TLC

VARIABLES
    cmd,                  \* cli::StatSubcommand: skip_install, skip_update, repo_url, file
    host,                 \* the OS the binary was compiled for (cfg!(target_os))
    det,                  \* TRUE: check/build/test exit as a function of their arguments
    env,                  \* GITHUB_ACTION_RUN_ID and GITHUB_ACTION_RUN_NUMBER: <<>> when not set
    pc,                   \* position of stat / main0
    channel,              \* the channel stat is processing
    installed,            \* the toolchain currently installed on the machine
    versions,             \* stable_toolchain_version / bleeding_toolchain_version so far
    mooncake_sources,     \* stat's source list
    si,                   \* position of stat's loop over mooncake_sources
    pi,                   \* the process the install or the version discovery runs next
    stable_release_data,
    bleeding_release_data,
    result,               \* what stat returned: <<>> while running, <<Ok(d)>> or <<Err(e)>>
    files,                \* webapp/public/<os>/: the lines of the dated file and of the latest
                          \* copy, and which of the two is `cut`: not a whole gzip stream
    bpc,                  \* position of build
    bsrc,                 \* build's argument `source`
    vi,                   \* position of build's loop over rev / version
    di,                   \* the process download_to runs next
    cbts,                 \* build's local `cbts`
    tmp,                  \* build's TempDir: <<id>> while it exists
    livedirs,             \* the temporary directories that exist on disk
    ntmp,                 \* number of temporary directories created so far
    bret,                 \* what build returned: <<>> or <<Result>>
    mpc,                  \* position of run_matrix
    margs,                \* run_matrix's arguments workdir, source, running_os, running_backend
    oi, bi, ci,           \* run_matrix: position in running_os, running_backend, check/build/test
                          \* (mpc "run": moon clean is next; "cmd": the command is)
    slots,                \* run_matrix's twelve locals check_wasm .. test_native
    mret,                 \* what run_matrix returned: <<>> or <<Result>>
    returned,             \* results of earlier, completed calls of run_matrix with the same arguments
    clock,                \* wall clock
    log,                  \* every external process (and tempdir call) made so far, in order
    upc,                  \* position of the test update_mooncakes_list
    registry,             \* the index files under registry/index/user, in the order walkdir yields them
    db,                   \* MooncakesDB.db as get_all_mooncakes returned it: key -> versions
    exclude,              \* exclude.yml: the excluded names
    repos,                \* repos.yml: the ReposConfig on disk
    hung                  \* TRUE: the run waits for an external process that never exits

vars == <<cmd, host, det, env, pc, channel, installed, versions, mooncake_sources, si, pi,
          stable_release_data, bleeding_release_data, result, files,
          bpc, bsrc, vi, di, cbts, tmp, livedirs, ntmp, bret,
          mpc, margs, oi, bi, ci, slots, mret, returned, clock, log,
          upc, registry, db, exclude, repos, hung>>

statVars   == <<pc, channel, installed, versions, mooncake_sources, si, pi,
                stable_release_data, bleeding_release_data, result, files>>
buildVars  == <<bpc, bsrc, vi, di, cbts, tmp, livedirs, ntmp, bret>>
matrixVars == <<mpc, margs, oi, bi, ci, slots, mret>>
updateVars == <<upc, registry, db, exclude, repos>>
\* what stat, build and run_matrix never write: their inputs, the files of
\* update_mooncakes_list, and whether an external process has hung
inputVars  == <<cmd, host, det, env, updateVars, hung>>

----------------------------------------------------------------------------
(* Bounds of the model. *)

\* At most this many external processes fail (exit non-zero or do not start)
\* by the model's choice in one run.
MaxFaults == 1

\* Most versions or revisions of a source given to build on its own.
MaxRev == 2

\* Longest running_os and running_backend lists given to run_matrix when no
\* entry of running_os is the host.
MaxOsLen == 2
MaxBackendLen == 2
\* packages listed in repos.yml when update_mooncakes_list runs
MaxMooncakes == 2

Ok(v)  == [ok |-> TRUE, val |-> v]
Err(e) == [ok |-> FALSE, err |-> e]
Some(v) == <<v>>
None == <<>>

SeqsUpTo(S, n) == UNION {[1..k -> S] : k \in 0..n}

----------------------------------------------------------------------------
(* dashboard.rs *)

OS == {"Linux", "MacOS", "Windows"}

\* main.rs names Backend::Native throughout (117, 354-364, 517, 523, 529);
\* the enum of dashboard.rs declares Wasm, WasmGC and Js only.
Backend == {"Wasm", "WasmGC", "Js", "Native"}

\* The flag of the variant dashboard.rs does not declare: the specification
\* gives every backend a canonical lowercase flag string.
NativeFlag == "native"

\* Backend::to_flag: the three arms of dashboard.rs, and the flag of the
\* variant that main.rs uses without a declaration.
to_flag(backend) ==
    CASE backend = "Wasm"   -> "wasm"
      [] backend = "WasmGC" -> "wasm-gc"
      [] backend = "Js"     -> "js"
      [] backend = "Native" -> NativeFlag

MoonCommand(kind, backend) == [kind |-> kind, backend |-> backend]

\* MoonCommand::args
args(c, is_moonbit_community) ==
    CASE c.kind = "Check" -> <<"check", "-q", "--target", to_flag(c.backend)>>
      [] c.kind = "Build" -> <<"build", "-q", "--target", to_flag(c.backend)>>
      [] c.kind = "Test"  ->
            IF is_moonbit_community
            THEN <<"test", "-q", "--target", to_flag(c.backend)>>
            ELSE <<"test", "-q", "--build-only", "--target", to_flag(c.backend)>>

\* A skip_result that reports the cell as failed.
skip_result_failure ==
    [status |-> "Failure", start_time |-> <<>>, elapsed |-> 0, stdout |-> "", stderr |-> ""]

\* ExecuteResult::skip_result
skip_result ==
    [status |-> "Skipped", start_time |-> <<>>, elapsed |-> 0, stdout |-> "", stderr |-> ""]

\* MooncakeSource::get_index
get_index(source) ==
    CASE source.kind = "MooncakesIO" -> source.index
      [] source.kind = "Git"         -> source.index

\* str::contains: pat occurs in s as a contiguous run of tokens
Contains(s, pat) ==
    \E i \in 0..(Len(s) - Len(pat)) : \A j \in 1..Len(pat) : s[i + j] = pat[j]

----------------------------------------------------------------------------
(* External processes. *)

\* An outcome of a process is "ok", "nonzero", "io" or "badutf8".
Faults == Cardinality({i \in DOMAIN log : log[i].outcome # "ok"})

IsCell(a) == a # <<>> /\ a[1] \in {"check", "build", "test"}

\* With det, a check, build or test repeats what the same arguments gave
\* before: the outcome it is bound to, if any.
Forced(prog, a) ==
    IF det /\ prog = "moon" /\ IsCell(a)
    THEN LET prev == {i \in DOMAIN log : log[i].prog = "moon" /\ log[i].args = a}
         IN  IF prev # {}
             THEN {log[CHOOSE i \in prev : \A j \in prev : i <= j].outcome}
             ELSE {}
    ELSE {}

\* How a process can end other than by exit 0 with output that is read: it
\* exits non-zero, or it cannot be started (or waited for).  The output of
\* `moon version` and of `moonc -v` is read with String::from_utf8, which fails
\* on bytes that are not UTF-8; every other output is read lossily or not at all.
Failures(prog, a) ==
    CASE prog = "tempdir" -> {"io"}
      [] (prog = "moon" /\ a = <<"version">>) \/ prog = "moonc" -> {"nonzero", "io", "badutf8"}
      [] OTHER -> {"nonzero", "io"}

\* The outcomes `prog a` can have when run now: what Forced binds, and otherwise
\* any outcome, the failures chosen freely limited by MaxFaults over the run.
Possible(prog, a) ==
    IF Forced(prog, a) # {} THEN Forced(prog, a)
    ELSE {"ok"} \cup (IF Faults < MaxFaults THEN Failures(prog, a) ELSE {})

Invocation(prog, a, o, t) ==
    [prog |-> prog, args |-> a, outcome |-> o, start |-> t, end |-> t + 1]

\* run_moon: Err on a spawn failure, else the captured output with the exit flag
run_moon(o, start, end) ==
    IF o = "io"
    THEN Err("IOError")
    ELSE Ok([duration |-> end - start, stdout |-> "out", stderr |-> "err",
             success |-> (o = "ok")])

----------------------------------------------------------------------------
(* stat_mooncake *)

ORG == <<"moonbitlang">>

\* Only the URL of a repository is looked at.
is_moonbit_community_url_only(source) ==
    CASE source.kind = "MooncakesIO" -> FALSE
      [] source.kind = "Git"         -> Contains(source.url, ORG)

is_moonbit_community(source) ==
    CASE source.kind = "MooncakesIO" -> Contains(source.name, ORG)
      [] source.kind = "Git"         -> Contains(source.url, ORG)

\* stat_mooncake with `let r = run_moon(..)?`: the spawn failure is returned.
stat_mooncake_propagate(rc, r, now) ==
    IF ~r.ok THEN Err("RunMoon")
    ELSE Ok([status     |-> IF r.val.success THEN "Success" ELSE "Failure",
             start_time |-> <<now>>,
             elapsed    |-> r.val.duration,
             stdout     |-> r.val.stdout,
             stderr     |-> r.val.stderr])

\* stat_mooncake that returns an error when the command exits non-zero.
stat_mooncake_nonzero_is_error(rc, r, now) ==
    IF r.ok /\ ~r.val.success THEN Err("RunMoon")
    ELSE Ok([status     |-> IF r.ok THEN "Success" ELSE "Failure",
             start_time |-> <<now>>,
             elapsed    |-> IF r.ok THEN r.val.duration ELSE 0,
             stdout     |-> IF r.ok THEN r.val.stdout ELSE "",
             stderr     |-> IF r.ok THEN r.val.stderr ELSE ""])

\* stat_mooncake that takes the status from the result of `moon clean`.
stat_mooncake_clean_status(rc, r, now) ==
    LET status == IF rc.ok /\ rc.val.success THEN "Success" ELSE "Failure"
    IN  Ok([status     |-> status,
            start_time |-> <<now>>,
            elapsed    |-> IF r.ok THEN r.val.duration ELSE 0,
            stdout     |-> IF r.ok THEN r.val.stdout ELSE "",
            stderr     |-> IF r.ok THEN r.val.stderr ELSE ""])

\* stat_mooncake that reports Success only if `moon clean` succeeded as well.
stat_mooncake_needs_clean(rc, r, now) ==
    LET status == IF r.ok /\ r.val.success /\ rc.ok /\ rc.val.success
                  THEN "Success" ELSE "Failure"
    IN  Ok([status     |-> status,
            start_time |-> <<now>>,
            elapsed    |-> IF r.ok THEN r.val.duration ELSE 0,
            stdout     |-> IF r.ok THEN r.val.stdout ELSE "",
            stderr     |-> IF r.ok THEN r.val.stderr ELSE ""])

\* Local::now() read before the command is started.
stat_mooncake_sampled_before(rc, r, now) ==
    LET status == IF r.ok /\ r.val.success THEN "Success" ELSE "Failure"
    IN  Ok([status     |-> status,
            start_time |-> <<now - 1>>,
            elapsed    |-> IF r.ok THEN r.val.duration ELSE 0,
            stdout     |-> IF r.ok THEN r.val.stdout ELSE "",
            stderr     |-> IF r.ok THEN r.val.stderr ELSE ""])

\* rc is the result of `moon clean` (dropped), r the result of the command,
\* now the clock when Local::now() is read.
stat_mooncake(rc, r, now) ==
    LET status == IF r.ok /\ r.val.success THEN "Success" ELSE "Failure"
    IN  Ok([status     |-> status,
            start_time |-> <<now>>,
            elapsed    |-> IF r.ok THEN r.val.duration ELSE 0,
            stdout     |-> IF r.ok THEN r.val.stdout ELSE "",
            stderr     |-> IF r.ok THEN r.val.stderr ELSE ""])

----------------------------------------------------------------------------
(* run_matrix *)

Locals ==
    {"check_wasm", "check_wasm_gc", "check_js", "check_native",
     "build_wasm", "build_wasm_gc", "build_js", "build_native",
     "test_wasm",  "test_wasm_gc",  "test_js",  "test_native"}

\* lines 282-295
InitialSlots == [v \in Locals |-> skip_result]

\* The Windows branch copied from the Linux one with its cfg! left unchanged.
HostMatches_copied(os) ==
    CASE os = "Linux"   -> host = "Linux"
      [] os = "MacOS"   -> host = "MacOS"
      [] os = "Windows" -> host = "Linux"

\* cfg!(target_os = ..) of the branch taken for an entry of running_os
HostMatches(os) ==
    CASE os = "Linux"   -> host = "Linux"
      [] os = "MacOS"   -> host = "MacOS"
      [] os = "Windows" -> host = "Windows"

\* The Windows branch with the test of the native backend assigned to test_js.
Arm_crossed(os, backend) ==
    CASE backend = "Wasm" ->
            << [var |-> "check_wasm", cmd |-> MoonCommand("Check", "Wasm")],
               [var |-> "build_wasm", cmd |-> MoonCommand("Build", "Wasm")],
               [var |-> "test_wasm",  cmd |-> MoonCommand("Test",  "Wasm")] >>
      [] backend = "WasmGC" ->
            << [var |-> "check_wasm_gc", cmd |-> MoonCommand("Check", "WasmGC")],
               [var |-> "build_wasm_gc", cmd |-> MoonCommand("Build", "WasmGC")],
               [var |-> "test_wasm_gc",  cmd |-> MoonCommand("Test",  "WasmGC")] >>
      [] backend = "Js" ->
            << [var |-> "check_js", cmd |-> MoonCommand("Check", "Js")],
               [var |-> "build_js", cmd |-> MoonCommand("Build", "Js")],
               [var |-> "test_js",  cmd |-> MoonCommand("Test",  "Js")] >>
      [] backend = "Native" ->
            << [var |-> "check_native", cmd |-> MoonCommand("Check", "Native")],
               [var |-> "build_native", cmd |-> MoonCommand("Build", "Native")],
               [var |-> IF os = "Windows" THEN "test_js" ELSE "test_native",
                cmd |-> MoonCommand("Test",  "Native")] >>

\* The three assignments of a backend arm; the arms of the Linux, MacOS and
\* Windows branches are the same text.
Arm(os, backend) ==
    CASE backend = "Wasm" ->
            << [var |-> "check_wasm", cmd |-> MoonCommand("Check", "Wasm")],
               [var |-> "build_wasm", cmd |-> MoonCommand("Build", "Wasm")],
               [var |-> "test_wasm",  cmd |-> MoonCommand("Test",  "Wasm")] >>
      [] backend = "WasmGC" ->
            << [var |-> "check_wasm_gc", cmd |-> MoonCommand("Check", "WasmGC")],
               [var |-> "build_wasm_gc", cmd |-> MoonCommand("Build", "WasmGC")],
               [var |-> "test_wasm_gc",  cmd |-> MoonCommand("Test",  "WasmGC")] >>
      [] backend = "Js" ->
            << [var |-> "check_js", cmd |-> MoonCommand("Check", "Js")],
               [var |-> "build_js", cmd |-> MoonCommand("Build", "Js")],
               [var |-> "test_js",  cmd |-> MoonCommand("Test",  "Js")] >>
      [] backend = "Native" ->
            << [var |-> "check_native", cmd |-> MoonCommand("Check", "Native")],
               [var |-> "build_native", cmd |-> MoonCommand("Build", "Native")],
               [var |-> "test_native",  cmd |-> MoonCommand("Test",  "Native")] >>

\* lines 512-531
MkCBT(s) ==
    [check |-> [wasm |-> s["check_wasm"], wasm_gc |-> s["check_wasm_gc"],
                js |-> s["check_js"], native |-> s["check_native"]],
     build |-> [wasm |-> s["build_wasm"], wasm_gc |-> s["build_wasm_gc"],
                js |-> s["build_js"], native |-> s["build_native"]],
     test  |-> [wasm |-> s["test_wasm"], wasm_gc |-> s["test_wasm_gc"],
                js |-> s["test_js"], native |-> s["test_native"]]]

\* Entry of run_matrix(workdir, source, running_os, running_backend).
RunMatrixEntry(workdir, source, running_os, running_backend) ==
    /\ mpc' = "run"
    /\ margs' = [workdir |-> workdir, source |-> source,
                 running_os |-> running_os, running_backend |-> running_backend]
    /\ oi' = 1 /\ bi' = 1 /\ ci' = 1
    /\ slots' = InitialSlots
    /\ mret' = None

\* An entry of running_os that runs nothing: the host is another OS, or the
\* backend loop has nothing to iterate.
MatrixNextOs ==
    /\ mpc = "run"
    /\ oi <= Len(margs.running_os)
    /\ ~HostMatches(margs.running_os[oi]) \/ margs.running_backend = <<>>
    /\ oi' = oi + 1
    /\ UNCHANGED <<mpc, margs, bi, ci, slots, mret, returned, clock, log>>
    /\ UNCHANGED <<inputVars, statVars, buildVars>>

\* A backend arm that assigns only the slots that are still Skipped.
MatrixArm_keep_first ==
    /\ mpc \in {"run", "cmd"}
    /\ oi <= Len(margs.running_os)
    /\ HostMatches(margs.running_os[oi])
    /\ bi <= Len(margs.running_backend)
    /\ LET arm  == Arm(margs.running_os[oi], margs.running_backend[bi])
           last == ci = Len(arm)
       IN  IF mpc = "run"
           THEN \* let _ = run_moon(workdir, source, &["clean"]);
                \E o \in Possible("moon", <<"clean">>) :
                   /\ log' = Append(log, Invocation("moon", <<"clean">>, o, clock))
                   /\ clock' = clock + 1
                   /\ mpc' = "cmd"
                   /\ UNCHANGED <<oi, bi, ci, slots, mret>>
           ELSE \* let r = run_moon(workdir, source, &command.args(..)); Local::now()
                LET a == args(arm[ci].cmd, is_moonbit_community(margs.source))
                    c == log[Len(log)]
                IN  \E o \in Possible("moon", a) :
                       LET er == stat_mooncake(run_moon(c.outcome, c.start, c.end),
                                               run_moon(o, clock, clock + 1), clock + 1)
                       IN  /\ log' = Append(log, Invocation("moon", a, o, clock))
                           /\ clock' = clock + 1
                           /\ IF er.ok
                              THEN /\ slots' = IF slots[arm[ci].var].status = "Skipped"
                                             THEN [slots EXCEPT ![arm[ci].var] = er.val]
                                             ELSE slots
                                   /\ mpc' = "run"
                                   /\ ci' = IF last THEN 1 ELSE ci + 1
                                   /\ bi' = IF ~last THEN bi
                                            ELSE IF bi < Len(margs.running_backend)
                                                 THEN bi + 1 ELSE 1
                                   /\ oi' = IF last /\ bi = Len(margs.running_backend)
                                            THEN oi + 1 ELSE oi
                                   /\ UNCHANGED mret
                              ELSE /\ mpc' = "returned"
                                   /\ mret' = Some(Err("StatMooncake"))
                                   /\ UNCHANGED <<oi, bi, ci, slots>>
    /\ UNCHANGED <<margs, returned>>
    /\ UNCHANGED <<inputVars, statVars, buildVars>>

\* A backend arm that runs moon clean once, before its three commands.
MatrixArm_clean_once ==
    /\ mpc \in {"run", "cmd"}
    /\ oi <= Len(margs.running_os)
    /\ HostMatches(margs.running_os[oi])
    /\ bi <= Len(margs.running_backend)
    /\ LET arm  == Arm(margs.running_os[oi], margs.running_backend[bi])
           last == ci = Len(arm)
       IN  IF mpc = "run"
           THEN \* let _ = run_moon(workdir, source, &["clean"]);
                IF ci = 1
                THEN \E o \in Possible("moon", <<"clean">>) :
                        /\ log' = Append(log, Invocation("moon", <<"clean">>, o, clock))
                        /\ clock' = clock + 1
                        /\ mpc' = "cmd"
                        /\ UNCHANGED <<oi, bi, ci, slots, mret>>
                ELSE /\ mpc' = "cmd"
                     /\ UNCHANGED <<oi, bi, ci, slots, mret, clock, log>>
           ELSE \* let r = run_moon(workdir, source, &command.args(..)); Local::now()
                LET a == args(arm[ci].cmd, is_moonbit_community(margs.source))
                    c == log[Len(log)]
                IN  \E o \in Possible("moon", a) :
                       LET er == stat_mooncake(run_moon(c.outcome, c.start, c.end),
                                               run_moon(o, clock, clock + 1), clock + 1)
                       IN  /\ log' = Append(log, Invocation("moon", a, o, clock))
                           /\ clock' = clock + 1
                           /\ IF er.ok
                              THEN /\ slots' = [slots EXCEPT ![arm[ci].var] = er.val]
                                   /\ mpc' = "run"
                                   /\ ci' = IF last THEN 1 ELSE ci + 1
                                   /\ bi' = IF ~last THEN bi
                                            ELSE IF bi < Len(margs.running_backend)
                                                 THEN bi + 1 ELSE 1
                                   /\ oi' = IF last /\ bi = Len(margs.running_backend)
                                            THEN oi + 1 ELSE oi
                                   /\ UNCHANGED mret
                              ELSE /\ mpc' = "returned"
                                   /\ mret' = Some(Err("StatMooncake"))
                                   /\ UNCHANGED <<oi, bi, ci, slots>>
    /\ UNCHANGED <<margs, returned>>
    /\ UNCHANGED <<inputVars, statVars, buildVars>>

\* One backend arm of the branch of a matching OS entry: three times
\* `x = stat_mooncake(workdir, source, cmd).map_err(..)?`.  Each stat_mooncake
\* waits for two processes, moon clean and then the command, one step each; the
\* step of the command ends with the assignment or the early return.
MatrixArm ==
    /\ mpc \in {"run", "cmd"}
    /\ oi <= Len(margs.running_os)
    /\ HostMatches(margs.running_os[oi])
    /\ bi <= Len(margs.running_backend)
    /\ LET arm  == Arm(margs.running_os[oi], margs.running_backend[bi])
           last == ci = Len(arm)
       IN  IF mpc = "run"
           THEN \* let _ = run_moon(workdir, source, &["clean"]);
                \E o \in Possible("moon", <<"clean">>) :
                   /\ log' = Append(log, Invocation("moon", <<"clean">>, o, clock))
                   /\ clock' = clock + 1
                   /\ mpc' = "cmd"
                   /\ UNCHANGED <<oi, bi, ci, slots, mret>>
           ELSE \* let r = run_moon(workdir, source, &command.args(..)); Local::now()
                LET a == args(arm[ci].cmd, is_moonbit_community(margs.source))
                    c == log[Len(log)]
                IN  \E o \in Possible("moon", a) :
                       LET er == stat_mooncake(run_moon(c.outcome, c.start, c.end),
                                               run_moon(o, clock, clock + 1), clock + 1)
                       IN  /\ log' = Append(log, Invocation("moon", a, o, clock))
                           /\ clock' = clock + 1
                           /\ IF er.ok
                              THEN /\ slots' = [slots EXCEPT ![arm[ci].var] = er.val]
                                   /\ mpc' = "run"
                                   /\ ci' = IF last THEN 1 ELSE ci + 1
                                   /\ bi' = IF ~last THEN bi
                                            ELSE IF bi < Len(margs.running_backend)
                                                 THEN bi + 1 ELSE 1
                                   /\ oi' = IF last /\ bi = Len(margs.running_backend)
                                            THEN oi + 1 ELSE oi
                                   /\ UNCHANGED mret
                              ELSE /\ mpc' = "returned"
                                   /\ mret' = Some(Err("StatMooncake"))
                                   /\ UNCHANGED <<oi, bi, ci, slots>>
    /\ UNCHANGED <<margs, returned>>
    /\ UNCHANGED <<inputVars, statVars, buildVars>>

\* The loop over running_os is over: Ok(CBT { .. })
MatrixReturn ==
    /\ mpc = "run"
    /\ oi > Len(margs.running_os)
    /\ mpc' = "returned"
    /\ mret' = Some(Ok(MkCBT(slots)))
    /\ UNCHANGED <<margs, oi, bi, ci, slots, returned, clock, log>>
    /\ UNCHANGED <<inputVars, statVars, buildVars>>

\* A caller that is not build calls run_matrix again with the same arguments.
MatrixAgain ==
    /\ bpc = "none"
    /\ det
    /\ mpc = "returned"
    /\ returned = <<>>
    /\ returned' = <<mret[1]>>
    /\ RunMatrixEntry(margs.workdir, margs.source, margs.running_os, margs.running_backend)
    /\ UNCHANGED <<clock, log>>
    /\ UNCHANGED <<inputVars, statVars, buildVars>>

----------------------------------------------------------------------------
(* Sources. *)

FirstParty == <<"https://github.com/", "moonbitlang", "/core">>
ThirdParty == <<"https://github.com/", "someone", "/lib">>
FirstPartyName == <<"moonbitlang", "/x">>
ThirdPartyName == <<"someone", "/y">>

GitSource(url, rev, running_os, running_backend, index) ==
    [kind |-> "Git", url |-> url, rev |-> rev,
     running_os |-> running_os, running_backend |-> running_backend, index |-> index]

MooncakesIOSource(name, version, running_os, running_backend, index) ==
    [kind |-> "MooncakesIO", name |-> name, version |-> version,
     running_os |-> running_os, running_backend |-> running_backend, index |-> index]

default_running_os == <<"Linux", "MacOS", "Windows">>
default_running_backend == <<"WasmGC", "Wasm", "Js", "Native">>

\* Option::unwrap_or
unwrap_or(opt, default) == IF opt # None THEN opt[1] ELSE default

\* lines 133-143: the loop over github_repos, pushing onto repo_list
RECURSIVE PushGithubRepos(_, _)
PushGithubRepos(repo_list, github_repos) ==
    IF github_repos = <<>> THEN repo_list
    ELSE LET repo == Head(github_repos)
         IN  PushGithubRepos(
                 Append(repo_list,
                        GitSource(repo.link, <<repo.branch>>,
                                  unwrap_or(repo.running_os, default_running_os),
                                  unwrap_or(repo.running_backend, default_running_backend),
                                  Len(repo_list))),
                 Tail(github_repos))

\* The loop over mooncakes with the index counted from the first mooncake.
PushMooncakes_enumerated(repo_list, mooncakes) ==
    LET base == Len(repo_list)
    IN  repo_list \o
        [k \in 1..Len(mooncakes) |->
            MooncakesIOSource(mooncakes[k].name, <<mooncakes[k].version>>,
                              unwrap_or(mooncakes[k].running_os, default_running_os),
                              unwrap_or(mooncakes[k].running_backend, default_running_backend),
                              k - 1)]

\* lines 145-155: the loop over mooncakes
RECURSIVE PushMooncakes(_, _)
PushMooncakes(repo_list, mooncakes) ==
    IF mooncakes = <<>> THEN repo_list
    ELSE LET mooncake == Head(mooncakes)
         IN  PushMooncakes(
                 Append(repo_list,
                        MooncakesIOSource(mooncake.name, <<mooncake.version>>,
                                  unwrap_or(mooncake.running_os, default_running_os),
                                  unwrap_or(mooncake.running_backend, default_running_backend),
                                  Len(repo_list))),
                 Tail(mooncakes))

\* c.file is Some(the ReposConfig get_repos_config reads from the path)
\* The ad-hoc repository given the revision "main".
get_mooncake_sources_main(c) ==
    LET l0 == IF c.repo_url # None
              THEN <<GitSource(c.repo_url[1], << <<"main">> >>, default_running_os,
                               default_running_backend, 0)>>
              ELSE <<>>
    IN  IF c.file # None
        THEN PushMooncakes(PushGithubRepos(l0, c.file[1].github_repos), c.file[1].mooncakes)
        ELSE l0

get_mooncake_sources(c) ==
    LET l0 == IF c.repo_url # None
              THEN <<GitSource(c.repo_url[1], <<>>, default_running_os,
                               default_running_backend, 0)>>
              ELSE <<>>
    IN  IF c.file # None
        THEN PushMooncakes(PushGithubRepos(l0, c.file[1].github_repos), c.file[1].mooncakes)
        ELSE l0

----------------------------------------------------------------------------
(* build *)

Versions(source) ==
    CASE source.kind = "Git"         -> source.rev
      [] source.kind = "MooncakesIO" -> source.version

\* `.ok()` of a Result
ok(r) == IF r.ok THEN Some(r.val) ELSE None

\* Leaving build with the directory kept on disk (TempDir::into_path).
DropTmp_keep ==
    /\ tmp' = None
    /\ UNCHANGED livedirs

\* Leaving build drops `tmp`, which removes the directory.
DropTmp ==
    /\ tmp' = None
    /\ livedirs' = livedirs \ {tmp[i] : i \in DOMAIN tmp}

\* let tmp = tempfile::tempdir().map_err(BuildError::IOError)?; let mut cbts = vec![];
BuildTempdir ==
    /\ bpc = "entry"
    /\ \E o \in Possible("tempdir", <<>>) :
          /\ log' = Append(log, Invocation("tempdir", <<>>, o, clock))
          /\ clock' = clock + 1
          /\ IF o = "ok"
             THEN /\ tmp' = Some(ntmp + 1)
                  /\ ntmp' = ntmp + 1
                  /\ livedirs' = livedirs \cup {ntmp + 1}
                  /\ cbts' = <<>>
                  /\ vi' = 1
                  /\ bpc' = IF bsrc.kind = "Git" THEN "clone" ELSE "loop"
                  /\ UNCHANGED bret
             ELSE /\ bret' = Some(Err("IOError"))
                  /\ bpc' = "returned"
                  /\ UNCHANGED <<tmp, ntmp, livedirs, cbts, vi>>
    /\ UNCHANGED <<bsrc, di>>
    /\ UNCHANGED <<inputVars, statVars, matrixVars, returned>>

\* git::git_clone_to(url, tmp.path(), "test").map_err(BuildError::GitError)?;
BuildClone ==
    /\ bpc = "clone"
    /\ \E o \in Possible("git", <<"clone", bsrc.url, tmp[1], "test">>) :
          /\ log' = Append(log, Invocation("git", <<"clone", bsrc.url, tmp[1], "test">>,
                                           o, clock))
          /\ clock' = clock + 1
          /\ IF o = "ok"
             THEN /\ bpc' = "loop"
                  /\ UNCHANGED <<bret, tmp, livedirs>>
             ELSE /\ bret' = Some(Err("GitError"))
                  /\ bpc' = "returned"
                  /\ DropTmp
    /\ UNCHANGED <<bsrc, di, vi, cbts, ntmp>>
    /\ UNCHANGED <<inputVars, statVars, matrixVars, returned>>

\* A failed fetch that only logs and continues.
FetchFailed_no_push ==
    /\ vi' = vi + 1
    /\ UNCHANGED <<cbts, bpc, bret, tmp, livedirs, matrixVars>>

\* A failed checkout after which the repository is cloned again.
FetchFailed_reclone ==
    /\ cbts' = Append(cbts, None)
    /\ vi' = vi + 1
    /\ bpc' = IF bsrc.kind = "Git" THEN "clone" ELSE bpc
    /\ UNCHANGED <<bret, tmp, livedirs, matrixVars>>

\* `eprintln!(..); cbts.push(None); continue;` of a fetch that failed
FetchFailed ==
    /\ cbts' = Append(cbts, None)
    /\ vi' = vi + 1
    /\ UNCHANGED <<bpc, bret, tmp, livedirs, matrixVars>>

\* One iteration of `for h in rev`: the checkout, then None or the call of run_matrix.
BuildCheckout ==
    /\ bpc = "loop"
    /\ bsrc.kind = "Git"
    /\ vi <= Len(bsrc.rev)
    /\ LET workdir == <<tmp[1], "test">>
           h       == bsrc.rev[vi]
       IN  \E o \in Possible("git", <<"checkout", workdir, h>>) :
              /\ log' = Append(log, Invocation("git", <<"checkout", workdir, h>>, o, clock))
              /\ clock' = clock + 1
              /\ IF o # "ok"
                 THEN FetchFailed
                 ELSE /\ RunMatrixEntry(workdir, bsrc, bsrc.running_os, bsrc.running_backend)
                      /\ bpc' = "matrix"
                      /\ UNCHANGED <<cbts, vi, bret, tmp, livedirs>>
    /\ UNCHANGED <<bsrc, di, ntmp>>
    /\ UNCHANGED <<inputVars, statVars, returned>>

\* mooncakesio::download_to: the download, then the extraction; the programs of
\* the unix and of the windows build.
DownloadProgs ==
    IF host = "Windows" THEN <<"powershell", "powershell">> ELSE <<"curl", "unzip">>

DownloadArgs(name, version, dst) ==
    IF host = "Windows"
    THEN << <<"Invoke-WebRequest", name, version, dst>>, <<"Expand-Archive", dst, version>> >>
    ELSE << <<"-o", dst, version, name>>, <<dst, version, "-d">> >>

\* One iteration of `for v in version`: download_to waits for the download and
\* then for the extraction, one step each; the first of them that does not exit
\* 0 is the Err that build logs, and after the extraction run_matrix is called.
BuildDownload ==
    /\ bpc = "loop"
    /\ bsrc.kind = "MooncakesIO"
    /\ vi <= Len(bsrc.version)
    /\ LET v       == bsrc.version[vi]
           workdir == <<tmp[1], v>>
           a       == DownloadArgs(bsrc.name, v, tmp[1])[di]
       IN  \E o \in Possible(DownloadProgs[di], a) :
              /\ log' = Append(log, Invocation(DownloadProgs[di], a, o, clock))
              /\ clock' = clock + 1
              /\ IF o # "ok"
                 THEN /\ FetchFailed
                      /\ di' = 1
                 ELSE IF di < Len(DownloadProgs)
                 THEN /\ di' = di + 1
                      /\ UNCHANGED <<cbts, vi, bpc, bret, tmp, livedirs, matrixVars>>
                 ELSE /\ di' = 1
                      /\ RunMatrixEntry(workdir, bsrc, bsrc.running_os, bsrc.running_backend)
                      /\ bpc' = "matrix"
                      /\ UNCHANGED <<cbts, vi, bret, tmp, livedirs>>
    /\ UNCHANGED <<bsrc, ntmp>>
    /\ UNCHANGED <<inputVars, statVars, returned>>

\* cbts.push(run_matrix(..).ok());
BuildPush ==
    /\ bpc = "matrix"
    /\ mpc = "returned"
    /\ cbts' = Append(cbts, ok(mret[1]))
    /\ vi' = vi + 1
    /\ bpc' = "loop"
    /\ mpc' = "idle"
    /\ mret' = None
    /\ UNCHANGED <<margs, oi, bi, ci, slots>>
    /\ UNCHANGED <<bsrc, di, tmp, livedirs, ntmp, bret>>
    /\ UNCHANGED <<inputVars, statVars, returned, clock, log>>

\* Ok(BuildState { source: source.get_index(), cbts })
BuildReturn ==
    /\ bpc = "loop"
    /\ vi > Len(Versions(bsrc))
    /\ bret' = Some(Ok([source |-> get_index(bsrc), cbts |-> cbts]))
    /\ bpc' = "returned"
    /\ DropTmp
    /\ UNCHANGED <<bsrc, di, vi, cbts, ntmp>>
    /\ UNCHANGED <<inputVars, statVars, matrixVars, returned, clock, log>>

----------------------------------------------------------------------------
(* stat and main0 *)

\* util.rs: the processes of install_stable_release / install_bleeding_release
\* in the unix and in the windows build.
InstallProgs ==
    IF host = "Windows" THEN <<"powershell", "moon">> ELSE <<"curl", "bash", "moon">>

InstallArgs(ch) ==
    IF host = "Windows"
    THEN << <<"-Command", "install", IF ch = "Bleeding" THEN "bleeding" ELSE "">>,
            <<"version", "--all">> >>
    ELSE << <<"-fsSL", "unix.sh">>,
            IF ch = "Bleeding" THEN <<"-s", "bleeding">> ELSE <<"-s">>,
            <<"version", "--all">> >>

StatFail(e) ==
    /\ result' = Some(Err(e))
    /\ pc' = "returned"

\* if !cmd.skip_install { install_stable_release()? }  (install_bleeding_release):
\* one step for each process the install waits for; the first that does not
\* exit 0 is the MoonOpsError stat returns.
StatInstall ==
    /\ pc = "install"
    /\ IF cmd.skip_install
       THEN /\ pc' = "update"
            /\ UNCHANGED <<installed, pi, result, clock, log>>
       ELSE LET prog == InstallProgs[pi]
                a    == InstallArgs(channel)[pi]
            IN  \E o \in Possible(prog, a) :
                   /\ log' = Append(log, Invocation(prog, a, o, clock))
                   /\ clock' = clock + 1
                   \* the install script has replaced the toolchain once it exits 0
                   /\ installed' = IF o = "ok" /\ pi = Len(InstallProgs) - 1
                                   THEN channel ELSE installed
                   /\ IF o # "ok"
                      THEN StatFail("MoonOpsError") /\ UNCHANGED pi
                      ELSE IF pi < Len(InstallProgs)
                      THEN pi' = pi + 1 /\ UNCHANGED <<pc, result>>
                      ELSE pi' = 1 /\ pc' = "update" /\ UNCHANGED result
    /\ UNCHANGED <<channel, versions, mooncake_sources, si,
                   stable_release_data, bleeding_release_data, files>>
    /\ UNCHANGED <<inputVars, buildVars, matrixVars, returned>>

\* if !cmd.skip_update { moon_update()? }
StatUpdate ==
    /\ pc = "update"
    /\ IF cmd.skip_update
       THEN /\ pc' = "version"
            /\ UNCHANGED <<result, clock, log>>
       ELSE \E o \in Possible("moon", <<"update">>) :
               /\ log' = Append(log, Invocation("moon", <<"update">>, o, clock))
               /\ clock' = clock + 1
               /\ IF o = "ok"
                  THEN pc' = "version" /\ UNCHANGED result
                  ELSE StatFail("MoonOpsError")
    /\ UNCHANGED <<channel, installed, versions, mooncake_sources, si, pi,
                   stable_release_data, bleeding_release_data, files>>
    /\ UNCHANGED <<inputVars, buildVars, matrixVars, returned>>

\* get_moon_version()?, then get_moonc_version()?, one step each: a process
\* that does not exit 0, or whose output is not UTF-8, is the MoonOpsError stat
\* returns; after the second, the ToolChainVersion of the channel and, in the
\* stable channel, get_mooncake_sources(&cmd)?
StatVersion ==
    /\ pc = "version"
    /\ LET prog == <<"moon", "moonc">>[pi]
           a    == << <<"version">>, <<"-v">> >>[pi]
       IN  \E o \in Possible(prog, a) :
              /\ log' = Append(log, Invocation(prog, a, o, clock))
              /\ clock' = clock + 1
              /\ IF o # "ok"
                 THEN /\ StatFail("MoonOpsError")
                      /\ UNCHANGED <<versions, mooncake_sources, si, pi>>
                 ELSE IF pi = 1
                 THEN /\ pi' = 2
                      /\ UNCHANGED <<versions, mooncake_sources, si, pc, result>>
                 ELSE /\ versions' = Append(versions,
                             [label |-> channel,
                              moon_version |-> <<"moon", installed>>,
                              moonc_version |-> <<"moonc", installed>>])
                      /\ mooncake_sources' = IF channel = "Stable"
                                             THEN get_mooncake_sources(cmd)
                                             ELSE mooncake_sources
                      /\ si' = 1
                      /\ pi' = 1
                      /\ pc' = "loop"
                      /\ UNCHANGED result
    /\ UNCHANGED <<channel, installed, stable_release_data, bleeding_release_data, files>>
    /\ UNCHANGED <<inputVars, buildVars, matrixVars, returned>>

\* for source in mooncake_sources.iter() { let build_state = build(source) ..
StatBuildCall ==
    /\ pc = "loop"
    /\ si <= Len(mooncake_sources)
    /\ pc' = "build"
    /\ bpc' = "entry"
    /\ bsrc' = mooncake_sources[si]
    /\ bret' = None
    /\ UNCHANGED <<vi, di, cbts, tmp, livedirs, ntmp>>
    /\ UNCHANGED <<channel, installed, versions, mooncake_sources, si, pi,
                   stable_release_data, bleeding_release_data, result, files>>
    /\ UNCHANGED <<inputVars, matrixVars, returned, clock, log>>

\* A copy of the stable loop that still pushes onto stable_release_data.
PushBuildState_copied(build_state) ==
    /\ stable_release_data' = Append(stable_release_data, build_state)
    /\ UNCHANGED bleeding_release_data

\* stable_release_data.push(build_state) of the first loop,
\* bleeding_release_data.push(build_state) of the second
PushBuildState(build_state) ==
    IF channel = "Stable"
    THEN /\ stable_release_data' = Append(stable_release_data, build_state)
         /\ UNCHANGED bleeding_release_data
    ELSE /\ bleeding_release_data' = Append(bleeding_release_data, build_state)
         /\ UNCHANGED stable_release_data

\* A build error that only skips the source.
BuildFailed_skip_source ==
    /\ si' = si + 1
    /\ pc' = "loop"
    /\ UNCHANGED <<result, stable_release_data, bleeding_release_data>>

\* build(source).map_err(|e| StatError { kind: StatErrorKind::BuildError(e) })?
BuildFailed ==
    /\ StatFail("BuildError")
    /\ UNCHANGED <<si, stable_release_data, bleeding_release_data>>

\* .. .map_err(..)?; stable_release_data.push(build_state) }  (bleeding_release_data)
StatBuildDone ==
    /\ pc = "build"
    /\ bpc = "returned"
    /\ bpc' = "none"
    /\ IF bret[1].ok
       THEN /\ PushBuildState(bret[1].val)
            /\ si' = si + 1
            /\ pc' = "loop"
            /\ UNCHANGED result
       ELSE BuildFailed
    /\ UNCHANGED <<bsrc, di, vi, cbts, tmp, livedirs, ntmp, bret>>
    /\ UNCHANGED <<channel, installed, versions, mooncake_sources, pi, files>>
    /\ UNCHANGED <<inputVars, matrixVars, returned, clock, log>>

\* The bleeding channel started at its version discovery, without install and update.
StatBleeding_no_install ==
    /\ pc = "loop"
    /\ si > Len(mooncake_sources)
    /\ channel = "Stable"
    /\ channel' = "Bleeding"
    /\ pc' = "version"
    /\ UNCHANGED <<installed, versions, mooncake_sources, si, pi,
                   stable_release_data, bleeding_release_data, result, files>>
    /\ UNCHANGED <<inputVars, buildVars, matrixVars, returned, clock, log>>

\* The stable loop is over: lines 591-613 start the bleeding channel.
StatBleeding ==
    /\ pc = "loop"
    /\ si > Len(mooncake_sources)
    /\ channel = "Stable"
    /\ channel' = "Bleeding"
    /\ pc' = "install"
    /\ UNCHANGED <<installed, versions, mooncake_sources, si, pi,
                   stable_release_data, bleeding_release_data, result, files>>
    /\ UNCHANGED <<inputVars, buildVars, matrixVars, returned, clock, log>>

\* lines 554-555 and 622-632
MoonBuildDashboard ==
    [run_id |-> unwrap_or(env.run_id, "0"),
     run_number |-> unwrap_or(env.run_number, "0"),
     sources |-> mooncake_sources,
     start_time |-> <<clock>>,
     stable_toolchain_version |-> versions[1],
     stable_release_data |-> stable_release_data,
     bleeding_toolchain_version |-> versions[2],
     bleeding_release_data |-> bleeding_release_data]

StatReturn ==
    /\ pc = "loop"
    /\ si > Len(mooncake_sources)
    /\ channel = "Bleeding"
    /\ result' = Some(Ok(MoonBuildDashboard))
    /\ pc' = "returned"
    /\ UNCHANGED <<channel, installed, versions, mooncake_sources, si, pi,
                   stable_release_data, bleeding_release_data, files>>
    /\ UNCHANGED <<inputVars, buildVars, matrixVars, returned, clock, log>>

\* serde_json::to_string(&dashboard): the line written for a dashboard
to_string(dashboard) == <<"json", dashboard>>

\* main0 opening the dated file with append instead of truncate.
Main0Ok_append ==
    /\ pc = "returned"
    /\ result[1].ok
    /\ \E o \in {"ok", "open", "write"} :
          CASE o = "ok"    -> /\ files' = [files EXCEPT
                                              !.dated = Append(files.dated, to_string(result[1].val)),
                                              !.cut = @ \ {"dated"}]
                              /\ pc' = "written"
            [] o = "open"  -> /\ pc' = "exit1"
                              /\ UNCHANGED files
            [] o = "write" -> /\ files' = [files EXCEPT !.dated = <<>>, !.cut = @ \cup {"dated"}]
                              /\ pc' = "exit1"
    /\ UNCHANGED <<channel, installed, versions, mooncake_sources, si, pi,
                   stable_release_data, bleeding_release_data, result>>
    /\ UNCHANGED <<inputVars, buildVars, matrixVars, returned, clock, log>>

\* main0, Ok(dashboard): open the dated file with create, write and truncate,
\* write the line, flush and finish the encoder.  Each of them can fail, and
\* main0 returns the error: when the file cannot be opened it is left as it
\* was, and when the writing fails it has been truncated and holds what had
\* reached it of the gzip stream, nothing or a beginning, with no line to read.
Main0Ok ==
    /\ pc = "returned"
    /\ result[1].ok
    /\ \E o \in {"ok", "open", "write"} :
          CASE o = "ok"    -> /\ files' = [files EXCEPT !.dated = <<to_string(result[1].val)>>,
                                                        !.cut = @ \ {"dated"}]
                              /\ pc' = "written"
            [] o = "open"  -> /\ pc' = "exit1"
                              /\ UNCHANGED files
            [] o = "write" -> /\ files' = [files EXCEPT !.dated = <<>>, !.cut = @ \cup {"dated"}]
                              /\ pc' = "exit1"
    /\ UNCHANGED <<channel, installed, versions, mooncake_sources, si, pi,
                   stable_release_data, bleeding_release_data, result>>
    /\ UNCHANGED <<inputVars, buildVars, matrixVars, returned, clock, log>>

\* std::fs::copy(&filename, latest_filename)?; Ok(()): the latest file becomes a
\* copy of the dated one, or the copy fails and main0 returns the error.  A
\* copy that fails at opening either file leaves the latest file as it was; one
\* that fails later (no space left, say) has truncated the latest file and
\* leaves in it a beginning of the gzip stream: its earlier content is gone and
\* no line can be read from it.
Main0Copy ==
    /\ pc = "written"
    /\ \E o \in {"ok", "open", "copy"} :
          CASE o = "ok"   -> /\ files' = [files EXCEPT !.latest = files.dated,
                                                       !.cut = @ \ {"latest"}]
                             /\ pc' = "exit0"
            [] o = "open" -> /\ pc' = "exit1"
                             /\ UNCHANGED files
            [] o = "copy" -> /\ files' = [files EXCEPT !.latest = <<>>, !.cut = @ \cup {"latest"}]
                             /\ pc' = "exit1"
    /\ UNCHANGED <<channel, installed, versions, mooncake_sources, si, pi,
                   stable_release_data, bleeding_release_data, result>>
    /\ UNCHANGED <<inputVars, buildVars, matrixVars, returned, clock, log>>

\* main0, Err(e) => Err(anyhow!(e)): the process prints the error and exits non-zero
Main0Err ==
    /\ pc = "returned"
    /\ ~result[1].ok
    /\ pc' = "exit1"
    /\ UNCHANGED <<channel, installed, versions, mooncake_sources, si, pi,
                   stable_release_data, bleeding_release_data, result, files>>
    /\ UNCHANGED <<inputVars, buildVars, matrixVars, returned, clock, log>>

----------------------------------------------------------------------------
(* update_mooncakes_list.  A package name is the sequence of its characters
   <<user, separator, package>>. *)

\* str::replace("\\", "/")
replace(name) == [k \in DOMAIN name |-> IF name[k] = "\\" THEN "/" ELSE name[k]]

\* the bytes String::cmp compares
Byte(c) ==
    CASE c = "/" -> 47 [] c = "\\" -> 92 [] c = "a" -> 97 [] c = "b" -> 98 [] c = "c" -> 99

\* String::cmp(a, b) = Less
RECURSIVE StrLess(_, _)
StrLess(a, b) ==
    IF b = <<>> THEN FALSE
    ELSE IF a = <<>> THEN TRUE
    ELSE IF Byte(Head(a)) # Byte(Head(b)) THEN Byte(Head(a)) < Byte(Head(b))
    ELSE StrLess(Tail(a), Tail(b))

\* impl Ord for Mooncake: by name
MooncakeLess(x, y) == StrLess(x.name, y.name)

\* Vec::sort, a stable sort: x goes after the entries that are not greater
RECURSIVE Insert(_, _)
Insert(sorted, x) ==
    IF sorted = <<>> THEN <<x>>
    ELSE IF MooncakeLess(x, Head(sorted)) THEN <<x>> \o sorted
    ELSE <<Head(sorted)>> \o Insert(Tail(sorted), x)

RECURSIVE sort(_)
sort(l) == IF l = <<>> THEN <<>> ELSE Insert(sort(SubSeq(l, 1, Len(l) - 1)), l[Len(l)])

\* the keys of a BTreeMap in iteration order
RECURSIVE KeysInOrder(_)
KeysInOrder(S) ==
    IF S = {} THEN <<>>
    ELSE LET k == CHOOSE x \in S : \A y \in S : ~StrLess(y, x)
         IN  <<k>> \o KeysInOrder(S \ {k})

\* Vec::last
last(v) == IF v = <<>> THEN None ELSE Some(v[Len(v)])

\* the first loop: `for mooncake in &mut repos.mooncakes`
RECURSIVE UpdateExisting(_, _, _)
UpdateExisting(mooncakes, d, ex) ==
    IF mooncakes = <<>> THEN <<>>
    ELSE LET mooncake == Head(mooncakes)
             name == replace(mooncake.name)
             rest == UpdateExisting(Tail(mooncakes), d, ex)
         IN  IF name \in ex THEN rest
             ELSE IF name \in DOMAIN d /\ last(d[name]) # None
                  THEN <<[mooncake EXCEPT !.version = last(d[name])[1]]>> \o rest
                  ELSE rest

\* the second loop: `for (name, versions) in &db.db`
RECURSIVE AddNew(_, _, _, _)
AddNew(keys, d, ex, existing_mooncakes) ==
    IF keys = <<>> THEN <<>>
    ELSE LET name == replace(Head(keys))
             rest == AddNew(Tail(keys), d, ex, existing_mooncakes)
         IN  IF name \in existing_mooncakes \/ name \in ex THEN rest
             ELSE IF last(d[Head(keys)]) # None
                  THEN <<[name |-> name, version |-> last(d[Head(keys)])[1],
                          running_os |-> None, running_backend |-> None]>> \o rest
                  ELSE rest

\* the list update_mooncakes_list writes back as repos.mooncakes
updated_mooncakes(mooncakes, d, ex) ==
    LET existing_mooncakes == {replace(mooncakes[k].name) : k \in DOMAIN mooncakes}
    IN  sort(UpdateExisting(mooncakes, d, ex)
             \o AddNew(KeysInOrder(DOMAIN d), d, ex, existing_mooncakes))

\* std::path::MAIN_SEPARATOR of the host
Separator == IF host = "Windows" THEN "\\" ELSE "/"

\* p.strip_prefix(&dir) without ".index": the components of the path below
\* user/, joined by the separator of the host
RECURSIVE PathName(_)
PathName(p) ==
    IF Len(p) <= 1 THEN p ELSE <<Head(p), Separator>> \o PathName(Tail(p))

\* struct MooncakeInfo, as serde_json::from_str returns it for a line of an
\* index file; a line that is not one is Err("Serde")
MooncakeInfo(version, keywords) == Ok([version |-> version, keywords |-> keywords])

\* `for line in index_file_content.lines()`: Err at the first line that is not
\* a MooncakeInfo, else the versions and whether a line has the keyword
RECURSIVE ReadLines(_, _, _)
ReadLines(lines, indexes, is_mooncakes_test) ==
    IF lines = <<>>
    THEN Ok([indexes |-> indexes, is_mooncakes_test |-> is_mooncakes_test])
    ELSE LET index == Head(lines)
         IN  IF ~index.ok THEN index
             ELSE ReadLines(Tail(lines), Append(indexes, index.val.version),
                            is_mooncakes_test
                                \/ (index.val.keywords # None
                                    /\ "mooncakes-test" \in index.val.keywords[1]))

\* get_all_mooncakes over the index files walkdir yields, in that order, d the
\* map built so far; content is what read_to_string returns: the parsed lines
\* of the file, or Err(IOError)
RECURSIVE get_all_mooncakes(_, _)
get_all_mooncakes(entries, d) ==
    IF entries = <<>> THEN Ok(d)
    ELSE LET entry == Head(entries)
         IN  IF ~entry.content.ok THEN entry.content
             ELSE LET r == ReadLines(entry.content.val, <<>>, FALSE)
                  IN  IF ~r.ok THEN r
                      ELSE get_all_mooncakes(
                               Tail(entries),
                               IF r.val.is_mooncakes_test THEN d
                               ELSE (PathName(entry.path) :> r.val.indexes) @@ d)

\* the test update_mooncakes_list; `get_all_mooncakes().unwrap()` panics on Err
\* before repos.yml is written
update_mooncakes_list ==
    /\ upc = "start"
    /\ LET r == get_all_mooncakes(registry, <<>>)
       IN  IF r.ok
           THEN /\ db' = r.val
                /\ repos' = [repos EXCEPT !.mooncakes =
                                updated_mooncakes(repos.mooncakes, r.val, exclude)]
                /\ upc' = "done"
           ELSE /\ upc' = "panicked"
                /\ UNCHANGED <<db, repos>>
    /\ UNCHANGED <<registry, exclude>>
    /\ UNCHANGED <<cmd, host, det, env, hung, statVars, buildVars, matrixVars, returned, clock, log>>

\* update_mooncakes_list is not running
UpdateIdle ==
    /\ upc = "none" /\ registry = <<>> /\ db = <<>> /\ exclude = {} /\ repos = <<>>

----------------------------------------------------------------------------
(* Specifications. *)

NoCommand == [skip_install |-> TRUE, skip_update |-> TRUE, repo_url |-> None, file |-> None]

NoEnv == [run_id |-> None, run_number |-> None]

NoFiles == [dated |-> <<>>, latest |-> <<>>, cut |-> {}]

\* stat is not running: run_matrix or build is called on its own.
StatIdle ==
    /\ pc = "none" /\ channel = "Stable" /\ installed = "none" /\ versions = <<>>
    /\ mooncake_sources = <<>> /\ si = 1 /\ pi = 1
    /\ stable_release_data = <<>> /\ bleeding_release_data = <<>>
    /\ result = None /\ files = NoFiles
    /\ cmd = NoCommand /\ env = NoEnv

BuildIdle ==
    /\ bpc = "none" /\ bsrc = <<>> /\ vi = 1 /\ di = 1 /\ cbts = <<>>
    /\ tmp = None /\ livedirs = {} /\ ntmp = 0 /\ bret = None

MatrixIdle ==
    /\ mpc = "idle" /\ margs = <<>> /\ oi = 1 /\ bi = 1 /\ ci = 1
    /\ slots = InitialSlots /\ mret = None

\* The running_os and running_backend lists run_matrix is given when it runs
\* commands: one or two entries, repeated or not.
OsLists ==
    {<<a>> : a \in OS} \cup {<<a, a>> : a \in OS}
        \cup {<<"Linux", "MacOS">>, <<"Windows", "Linux">>, <<"MacOS", "Windows">>}

BackendLists == {<<"Js">>, <<"Native", "Wasm">>, <<"WasmGC", "WasmGC">>}

\* ... and when it runs none: any lists within MaxOsLen and MaxBackendLen of
\* which no OS entry is the host.
MatrixInputs ==
    (OsLists \X BackendLists)
        \cup {in \in SeqsUpTo(OS, MaxOsLen) \X SeqsUpTo(Backend, MaxBackendLen) :
                \A i \in DOMAIN in[1] : in[1][i] # host}

\* run_matrix called on its own; with a deterministic toolchain, twice.
InitMatrix ==
    /\ StatIdle /\ BuildIdle /\ UpdateIdle
    /\ host \in OS
    /\ det \in BOOLEAN
    /\ returned = <<>> /\ clock = 1 /\ log = <<>> /\ hung = FALSE
    /\ \E in \in MatrixInputs :
       LET ros == in[1]
           rb  == in[2]
       IN
          /\ mpc = "run"
          /\ margs = [workdir |-> <<"tmp", "test">>,
                      source |-> GitSource(ThirdParty, <<>>, ros, rb, 0),
                      running_os |-> ros, running_backend |-> rb]
          /\ oi = 1 /\ bi = 1 /\ ci = 1
          /\ slots = InitialSlots
          /\ mret = None

NextMatrix == MatrixNextOs \/ MatrixArm \/ MatrixReturn \/ MatrixAgain

SpecMatrix == InitMatrix /\ [][NextMatrix]_vars

\* build called on its own, on a source of either variant with up to MaxRev
\* versions or revisions.
RevList(n) == [k \in 1..n |-> <<"rev", k>>]

RunConfigs ==
    {[os |-> <<"Linux">>, be |-> <<"Js">>],
     [os |-> default_running_os, be |-> <<"Wasm">>]}

BuildSources ==
    {GitSource(FirstParty, RevList(n), rc.os, rc.be, 0) :
        n \in 0..MaxRev, rc \in RunConfigs}
    \cup {MooncakesIOSource(ThirdPartyName, RevList(n), rc.os, rc.be, 0) :
        n \in 0..MaxRev, rc \in RunConfigs}

InitBuild ==
    /\ StatIdle /\ MatrixIdle /\ UpdateIdle
    /\ host \in OS
    /\ det = FALSE
    /\ returned = <<>> /\ clock = 1 /\ log = <<>> /\ hung = FALSE
    /\ bpc = "entry" /\ bsrc \in BuildSources
    /\ vi = 1 /\ di = 1 /\ cbts = <<>>
    /\ tmp = None /\ livedirs = {} /\ ntmp = 0 /\ bret = None

NextBuild ==
    \/ BuildTempdir \/ BuildClone \/ BuildCheckout \/ BuildDownload
    \/ BuildPush \/ BuildReturn
    \/ MatrixNextOs \/ MatrixArm \/ MatrixReturn

SpecBuild == InitBuild /\ [][NextBuild]_vars

\* The whole program: main0 running stat.  The declaration files read by
\* get_repos_config and the command lines the model runs.
RepoA == [name |-> <<"core">>, link |-> FirstParty, branch |-> <<"main">>,
          running_os |-> None, running_backend |-> Some(<<"Js">>)]
RepoB == [name |-> <<"lib">>, link |-> ThirdParty, branch |-> <<"dev">>,
          running_os |-> Some(<<"Windows">>), running_backend |-> Some(<<"Native", "Wasm">>)]
CakeA == [name |-> ThirdPartyName, version |-> <<"0.1.0">>,
          running_os |-> None, running_backend |-> Some(<<"WasmGC">>)]
CakeB == [name |-> FirstPartyName, version |-> <<"2.0.0">>,
          running_os |-> Some(<<"MacOS">>), running_backend |-> Some(<<"Wasm">>)]

File1 == [github_repos |-> <<RepoA>>, mooncakes |-> <<CakeA>>]
File2 == [github_repos |-> <<RepoB, RepoA>>, mooncakes |-> <<>>]
File3 == [github_repos |-> <<>>, mooncakes |-> <<CakeB, CakeA>>]

StatCommand(skip_install, skip_update, repo_url, file) ==
    [skip_install |-> skip_install, skip_update |-> skip_update,
     repo_url |-> repo_url, file |-> file]

StatCommands ==
    {StatCommand(FALSE, FALSE, None, Some(File1)),
     StatCommand(TRUE, TRUE, Some(FirstParty), Some(File1)),
     StatCommand(FALSE, TRUE, None, Some(File2)),
     StatCommand(TRUE, FALSE, Some(ThirdParty), None),
     StatCommand(FALSE, FALSE, None, None),
     StatCommand(TRUE, TRUE, None, Some(File3))}

\* Two of the command lines: one that installs, updates and builds a
\* repository and a package, and one that builds an ad-hoc repository alone.
LiveCommands ==
    {StatCommand(FALSE, FALSE, None, Some(File1)),
     StatCommand(TRUE, FALSE, Some(ThirdParty), None)}

\* What an earlier run of the same day left in webapp/public/<os>/.
Earlier ==
    to_string([run_id |-> "0", run_number |-> "0",
               sources |-> <<>>,
               start_time |-> <<0>>,
               stable_toolchain_version |->
                   [label |-> "Stable", moon_version |-> <<"moon", "Stable">>,
                    moonc_version |-> <<"moonc", "Stable">>],
               stable_release_data |-> <<>>,
               bleeding_toolchain_version |->
                   [label |-> "Bleeding", moon_version |-> <<"moon", "Bleeding">>,
                    moonc_version |-> <<"moonc", "Bleeding">>],
               bleeding_release_data |-> <<>>])
EarlierFiles == [dated |-> <<Earlier>>, latest |-> <<Earlier>>, cut |-> {}]

\* The environment of a run: outside GitHub Actions, and two workflow runs.
Environments ==
    {NoEnv,
     [run_id |-> Some("42"), run_number |-> Some("7")],
     [run_id |-> Some("42"), run_number |-> None]}

Init ==
    /\ cmd \in StatCommands
    /\ env \in Environments
    \* the two workflow runs: one of a declaration file, one of an ad-hoc URL
    /\ env.run_number # None => cmd = StatCommand(TRUE, TRUE, None, Some(File3))
    /\ (env.run_id # None /\ env.run_number = None) =>
          cmd = StatCommand(TRUE, FALSE, Some(ThirdParty), None)
    /\ host \in OS
    /\ det = FALSE
    /\ pc = "install" /\ channel = "Stable" /\ installed = "none" /\ versions = <<>>
    /\ mooncake_sources = <<>> /\ si = 1 /\ pi = 1
    /\ stable_release_data = <<>> /\ bleeding_release_data = <<>>
    /\ result = None
    /\ files = EarlierFiles
    /\ BuildIdle /\ MatrixIdle /\ UpdateIdle
    /\ returned = <<>> /\ clock = 1 /\ log = <<>> /\ hung = FALSE

Next ==
    \/ StatInstall \/ StatUpdate \/ StatVersion
    \/ StatBuildCall \/ StatBuildDone \/ StatBleeding \/ StatReturn
    \/ Main0Ok \/ Main0Copy \/ Main0Err
    \/ BuildTempdir \/ BuildClone \/ BuildCheckout \/ BuildDownload
    \/ BuildPush \/ BuildReturn
    \/ MatrixNextOs \/ MatrixArm \/ MatrixReturn

Spec == Init /\ [][Next]_vars

\* The whole program with external processes that may never exit.  Every
\* process is started with Command::output(), or with spawn() followed by
\* wait(): the caller waits for the child without a timeout.

\* the next step of the run starts an external process
Starting ==
    \/ pc = "install" /\ ~cmd.skip_install
    \/ pc = "update" /\ ~cmd.skip_update
    \/ pc = "version"
    \/ bpc = "clone"
    \/ bpc = "loop" /\ vi <= Len(Versions(bsrc))
    \/ /\ mpc \in {"run", "cmd"}
       /\ oi <= Len(margs.running_os)
       /\ HostMatches(margs.running_os[oi])
       /\ bi <= Len(margs.running_backend)

\* A child that is given up after a timeout: the caller does not wait.
Blocked_timeout == FALSE

\* output() or wait() has not returned: the caller is still waiting
Blocked == hung

\* the process started now never exits
Hang ==
    /\ ~hung
    /\ Starting
    /\ hung' = TRUE
    /\ UNCHANGED <<cmd, host, det, env, updateVars, statVars, buildVars, matrixVars,
                   returned, clock, log>>

\* a step of the run, which it takes when it is not waiting
Proceed == ~Blocked /\ Next

NextLive == Proceed \/ Hang

\* The program is sequential: when it is not waiting for a child it takes its
\* next step.  The runs followed to their end are those of LiveCommands.
InitLive == Init /\ cmd \in LiveCommands

SpecLive == InitLive /\ [][NextLive]_vars /\ WF_vars(Proceed)

\* update_mooncakes_list run on its own: a registry index of up to two packages
\* of user a, an exclusion set, and a repos.yml that lists up to MaxMooncakes
\* packages, no package twice, written with either separator.
Packages == {<<"a", "b">>, <<"a", "c">>}

\* The index files of the model: two versions; one version; the keyword on the
\* last line, or on the first line only; a line that is not JSON; a file that
\* cannot be read.
IndexFiles ==
    {Ok(<<MooncakeInfo("1.0.0", None), MooncakeInfo("2.0.0", Some({}))>>),
     Ok(<<MooncakeInfo("0.1.0", None)>>),
     Ok(<<MooncakeInfo("1.0.0", None), MooncakeInfo("2.0.0", Some({"mooncakes-test"}))>>),
     Ok(<<MooncakeInfo("0.1.0", Some({"mooncakes-test", "x"})), MooncakeInfo("0.2.0", None)>>),
     Ok(<<MooncakeInfo("1.0.0", None), Err("Serde")>>),
     Err("IOError")}

\* The walks of the registry: the packages and a file one directory deeper,
\* each present or not, in any order.
Walks ==
    {w \in SeqsUpTo([path : Packages \cup {<<"a", "b", "c">>}, content : IndexFiles],
                    Cardinality(Packages) + 1) :
        /\ \A i, j \in DOMAIN w : w[i].path = w[j].path => i = j
        /\ \A i \in DOMAIN w :
              Len(w[i].path) > 2 => w[i].content = Ok(<<MooncakeInfo("0.1.0", None)>>)
        \* one order of the files unless two of them stop the walk
        /\ \/ Cardinality({i \in DOMAIN w : ~get_all_mooncakes(<<w[i]>>, <<>>).ok}) > 1
           \/ \A i, j \in DOMAIN w : i < j => StrLess(w[i].path, w[j].path)}

ListedMooncakes ==
    {[name |-> <<p[1], s, p[2]>>, version |-> "0.0.1",
      running_os |-> ro, running_backend |-> None] :
        p \in Packages, s \in {"/", "\\"}, ro \in {None, Some(<<"Linux">>)}}

ReposFiles ==
    {l \in SeqsUpTo(ListedMooncakes, MaxMooncakes) :
        \A i, j \in DOMAIN l : replace(l[i].name) = replace(l[j].name) => i = j}

InitUpdate ==
    /\ StatIdle /\ BuildIdle /\ MatrixIdle
    /\ host \in OS
    /\ det = FALSE
    /\ returned = <<>> /\ clock = 1 /\ log = <<>> /\ hung = FALSE
    /\ upc = "start"
    /\ registry \in Walks
    /\ db = <<>>
    /\ exclude \in SUBSET {<<p[1], "/", p[2]>> : p \in Packages}
    /\ \E l \in ReposFiles : repos = [github_repos |-> <<>>, mooncakes |-> l]

NextUpdate == update_mooncakes_list

SpecUpdate == InitUpdate /\ [][NextUpdate]_vars

----------------------------------------------------------------------------
(* What the claims read. *)

CommandFields == {"check", "build", "test"}
BackendFields == {"wasm", "wasm_gc", "js", "native"}

\* the field of BackendState that belongs to a backend
BackendField(backend) ==
    CASE backend = "Wasm"   -> "wasm"
      [] backend = "WasmGC" -> "wasm_gc"
      [] backend = "Js"     -> "js"
      [] backend = "Native" -> "native"

\* the twelve ExecuteResults of a CBT
CBTResults(cbt) == {cbt[c][f] : c \in CommandFields, f \in BackendFields}

\* the ExecuteResults of a list of Option<CBT>
ListResults(l) == UNION {CBTResults(l[k][1]) : k \in {j \in DOMAIN l : l[j] # None}}

Range(f) == {f[i] : i \in DOMAIN f}

\* the k-th smallest element of a set of numbers
Nth(S, k) == CHOOSE i \in S : Cardinality({j \in S : j < i}) = k - 1

IsCellEntry(e) == e.prog = "moon" /\ IsCell(e.args)

\* the log entries that start the fetch of a version: a checkout, or the
\* download of an archive
IsDownload(e) == e.prog = DownloadProgs[1] /\ e.args[1] \in {"-o", "Invoke-WebRequest"}
IsCheckout(e) == e.prog = "git" /\ e.args[1] = "checkout"
FetchIdx == {i \in DOMAIN log : IsCheckout(log[i]) \/ IsDownload(log[i])}

\* the fetch that starts at log entry i succeeded
FetchOk(i) ==
    /\ log[i].outcome = "ok"
    /\ IsDownload(log[i]) => (i + 1 \in DOMAIN log /\ log[i + 1].outcome = "ok")

\* the log entries between the k-th fetch and the next
FetchWindow(k) ==
    {j \in DOMAIN log :
        /\ j > Nth(FetchIdx, k)
        /\ k < Cardinality(FetchIdx) => j < Nth(FetchIdx, k + 1)}

----------------------------------------------------------------------------
(* Claims. *)

\* C1: in every Dashboard stat returns, stable_release_data, bleeding_release_data
\* and sources have the same length, and at every position i the source of both
\* BuildStates is the index of sources[i].
C1_DashboardAligned ==
    (result # None /\ result[1].ok) =>
        LET d == result[1].val
        IN  /\ Len(d.stable_release_data) = Len(d.sources)
            /\ Len(d.bleeding_release_data) = Len(d.sources)
            /\ \A i \in 1..Len(d.sources) :
                  /\ d.stable_release_data[i].source = d.sources[i].index
                  /\ d.bleeding_release_data[i].source = d.sources[i].index

\* a dashboard of three sources, one of them with a fetch that failed
C1_Witness ==
    /\ result # None /\ result[1].ok
    /\ Len(result[1].val.sources) = 3
    /\ \E i \in 1..3 : \E k \in DOMAIN result[1].val.bleeding_release_data[i].cbts :
          result[1].val.bleeding_release_data[i].cbts[k] = None

\* C2: in every BuildState build returns, cbts has one entry per declared version
\* or revision, the versions were fetched in declaration order, and the commands
\* behind entry k ran after the k-th fetch and before the next.
C2_OneEntryPerVersion ==
    (bret # None /\ bret[1].ok) =>
        LET bs == bret[1].val
            vs == Versions(bsrc)
        IN  /\ Len(bs.cbts) = Len(vs)
            /\ Cardinality(FetchIdx) = Len(vs)
            /\ \A k \in 1..Len(vs) :
                  /\ log[Nth(FetchIdx, k)].args[3] = vs[k]
                  /\ bs.cbts[k] # None =>
                        \A x \in CBTResults(bs.cbts[k][1]) :
                            x.start_time # <<>> =>
                                \E j \in FetchWindow(k) : log[j].end = x.start_time[1]

\* a BuildState of two versions, the first fetch failed, the second ran commands
C2_Witness ==
    /\ bret # None /\ bret[1].ok
    /\ Len(Versions(bsrc)) = 2
    /\ bret[1].val.cbts[1] = None
    /\ bret[1].val.cbts[2] # None
    /\ \E x \in CBTResults(bret[1].val.cbts[2][1]) : x.status # "Skipped"

\* C3: entry k of cbts is None exactly when the k-th fetch failed, whatever
\* happened to the other fetches, and no toolchain command runs for a version
\* whose fetch failed.
C3_NoneIffFetchFailed ==
    /\ Cardinality(FetchIdx) >= Len(cbts)
    /\ \A k \in 1..Len(cbts) :
          /\ (cbts[k] = None) <=> ~FetchOk(Nth(FetchIdx, k))
          /\ ~FetchOk(Nth(FetchIdx, k)) =>
                \A j \in FetchWindow(k) : log[j].prog # "moon"

\* the second of two fetches failed (the extraction of the archive, or the
\* checkout) and the first entry is present
C3_Witness ==
    /\ Len(cbts) = 2
    /\ cbts[1] # None /\ cbts[2] = None
    /\ \E x \in CBTResults(cbts[1][1]) : x.status = "Success"

\* every ExecuteResult held by run_matrix, by its caller or by build
AllResults ==
    Range(slots)
        \cup (IF mret # None /\ mret[1].ok THEN CBTResults(mret[1].val) ELSE {})
        \cup UNION {CBTResults(returned[k].val) : k \in {j \in DOMAIN returned : returned[j].ok}}
        \cup ListResults(cbts)
        \cup (IF bret # None /\ bret[1].ok THEN ListResults(bret[1].val.cbts) ELSE {})

\* the log entries of check, build and test processes that could not be started
SpawnFailures == {i \in DOMAIN log : IsCellEntry(log[i]) /\ log[i].outcome = "io"}

\* C4: when the process of a check, build or test cell cannot be started, build
\* does not return a BuildState but the error run_matrix returned, and the
\* failure is not recorded as the result of a cell.
C4_SpawnFailurePropagates ==
    (bret # None /\ SpawnFailures # {}) =>
        /\ ~bret[1].ok
        /\ \A i \in SpawnFailures : \A x \in AllResults : x.start_time # <<log[i].end>>

FailedIn(S) == {i \in S : log[i].outcome # "ok"}
TempdirIdx == {i \in DOMAIN log : log[i].prog = "tempdir"}
CloneIdx == {i \in DOMAIN log : log[i].prog = "git" /\ log[i].args[1] = "clone"}

\* C5: whatever the fetch of a version fails at (download, extraction, clone or
\* checkout), build pushes None for it, goes on and returns a BuildState, never
\* an error.
C5_FetchFailureTolerated ==
    (bret # None /\ FailedIn(TempdirIdx) = {}) =>
        /\ bret[1].ok
        /\ Len(bret[1].val.cbts) = Len(Versions(bsrc))

\* the failures that are not tolerated: install, update, version discovery, the
\* temporary directory and the clone
IsFatal(e) ==
    \/ e.prog \in {"bash", "moonc", "tempdir"}
    \/ e.prog = "curl" /\ e.args[1] = "-fsSL"
    \/ e.prog = "powershell" /\ e.args[1] = "-Command"
    \/ e.prog = "moon" /\ e.args[1] \in {"update", "version"}
    \/ e.prog = "git" /\ e.args[1] = "clone"

StatFailed == result # None /\ ~result[1].ok

\* C6: once install, update, version discovery or a build has failed, stat
\* returns an error; while stat has not returned a dashboard the two files are
\* what they were; they are written only after both channels have a BuildState
\* for every source.
C6_NoPartialDashboard ==
    /\ (\E i \in DOMAIN log : log[i].outcome # "ok" /\ IsFatal(log[i])) =>
          \/ StatFailed
          \/ result = None /\ pc = "build" /\ bpc = "returned" /\ ~bret[1].ok
    /\ (bret # None /\ ~bret[1].ok) => (StatFailed \/ (result = None /\ pc = "build"))
    /\ (result = None \/ StatFailed) => files = EarlierFiles
    /\ StatFailed => pc \in {"returned", "exit1"}
    /\ files # EarlierFiles =>
          /\ pc \in {"written", "exit0", "exit1"}
          /\ result # None /\ result[1].ok
          /\ Len(versions) = 2
          /\ Len(stable_release_data) = Len(mooncake_sources)
          /\ Len(bleeding_release_data) = Len(mooncake_sources)

\* the run failed in the bleeding channel after the stable channel had built
\* two or more sources, and exited without touching the files
C6_Witness ==
    /\ pc = "exit1"
    /\ channel = "Bleeding"
    /\ Len(mooncake_sources) >= 2
    /\ Len(stable_release_data) = Len(mooncake_sources)
    /\ files = EarlierFiles

\* C7: the status recorded for an attempted cell is Success exactly when its own
\* process exited 0 and Failure when it exited non-zero, never Skipped, whatever
\* moon clean and the other cells did; every cell that has run is recorded,
\* unless the same command ran again later, and run_matrix returns no error.
C7_StatusIsOwnExit ==
    /\ LET held == AllResults
       IN  \A i \in DOMAIN log : IsCellEntry(log[i]) =>
              /\ log[i].outcome # "io" =>
                    \A x \in held : x.start_time = <<log[i].end>> =>
                        /\ log[i].outcome = "ok" => x.status = "Success"
                        /\ log[i].outcome = "nonzero" => x.status = "Failure"
              /\ \/ \E x \in held : x.start_time = <<log[i].end>>
                 \/ \E j \in (i + 1)..Len(log) : log[j].args = log[i].args
    /\ (mret # None /\ SpawnFailures = {}) => mret[1].ok

\* run_matrix returned a CBT that holds a Failure for a cell that exited non-zero
\* next to a Success
C7_Witness ==
    /\ mret # None /\ mret[1].ok
    /\ \E i \in DOMAIN log : \E x \in CBTResults(mret[1].val) :
          /\ IsCellEntry(log[i]) /\ log[i].outcome = "nonzero"
          /\ x.start_time = <<log[i].end>> /\ x.status = "Failure"
    /\ \E x \in CBTResults(mret[1].val) : x.status = "Success"

Sentinel(x) ==
    /\ x.status = "Skipped" /\ x.start_time = <<>> /\ x.elapsed = 0
    /\ x.stdout = "" /\ x.stderr = ""

\* C8: with an empty running_os, run_matrix runs no process and returns a CBT of
\* three commands times four backends, each slot Skipped with elapsed 0 and empty
\* stdout and stderr.
C8_EmptyOsAllSkipped ==
    (mpc = "returned" /\ margs.running_os = <<>>) =>
        /\ log = <<>>
        /\ mret[1].ok
        /\ DOMAIN mret[1].val = CommandFields
        /\ \A c \in CommandFields :
              /\ DOMAIN mret[1].val[c] = BackendFields
              /\ \A f \in BackendFields :
                    LET x == mret[1].val[c][f]
                    IN  x.status = "Skipped" /\ x.elapsed = 0 /\ x.stdout = "" /\ x.stderr = ""
        /\ Cardinality(CBTResults(mret[1].val)) = 1

\* run_matrix returned for an empty running_os and two backends
C8_Witness ==
    /\ mpc = "returned"
    /\ margs.running_os = <<>>
    /\ Len(margs.running_backend) = 2

\* C9: in a CBT run_matrix returns, the check, build and test slots of a backend
\* are all three non-Skipped if the backend is in running_backend and some entry
\* of running_os is the host, and all three the Skipped sentinel otherwise; if no
\* entry is the host, no process was run.
C9_AllOrNonePerBackend ==
    (mret # None /\ mret[1].ok) =>
        /\ \A b \in Backend :
              LET selected == /\ b \in Range(margs.running_backend)
                              /\ \E i \in DOMAIN margs.running_os : margs.running_os[i] = host
              IN  \A c \in CommandFields :
                     LET x == mret[1].val[c][BackendField(b)]
                     IN  IF selected THEN x.status # "Skipped" ELSE Sentinel(x)
        /\ (\A i \in DOMAIN margs.running_os : margs.running_os[i] # host) => log = <<>>

\* a CBT with a backend that ran and one that did not, from a running_os with an
\* entry that is the host and one that is not
C9_Witness ==
    /\ mret # None /\ mret[1].ok
    /\ \E i, j \in DOMAIN margs.running_os :
          margs.running_os[i] = host /\ margs.running_os[j] # host
    /\ \E f, g \in BackendFields :
          /\ mret[1].val["check"][f].status # "Skipped"
          /\ mret[1].val["test"][g].status = "Skipped"

\* C10: with a toolchain whose check, build and test exit as a function of their
\* arguments, two calls of run_matrix with the same arguments return CBTs with
\* the same status in every slot.
C10_SameStatusTwice ==
    (det /\ returned # <<>> /\ mret # None) =>
        /\ returned[1].ok /\ mret[1].ok
        /\ \A c \in CommandFields, f \in BackendFields :
              returned[1].val[c][f].status = mret[1].val[c][f].status

\* two CBTs of the same arguments with a Failure and a Success in them, taken at
\* different times
C10_Witness ==
    /\ det /\ returned # <<>> /\ mret # None
    /\ \E c \in CommandFields, f \in BackendFields :
          /\ mret[1].val[c][f].status = "Failure"
          /\ returned[1].val[c][f].start_time # mret[1].val[c][f].start_time
    /\ \E x \in CBTResults(mret[1].val) : x.status = "Success"

\* the sources the command line declares, in the order the claim gives:
\* the ad-hoc URL, the repositories, the packages
Declared ==
    (IF cmd.repo_url # None THEN <<[kind |-> "Git", id |-> cmd.repo_url[1]]>> ELSE <<>>)
    \o (IF cmd.file # None
        THEN [k \in DOMAIN cmd.file[1].github_repos |->
                 [kind |-> "Git", id |-> cmd.file[1].github_repos[k].link]]
             \o [k \in DOMAIN cmd.file[1].mooncakes |->
                 [kind |-> "MooncakesIO", id |-> cmd.file[1].mooncakes[k].name]]
        ELSE <<>>)

SourceId(source) == IF source.kind = "Git" THEN source.url ELSE source.name

\* C11: once get_mooncake_sources has returned, the source at position i (from 0)
\* has index i, so no two sources share an index, and the list is the ad-hoc
\* URL (if given), then the declared repositories, then the declared packages,
\* each in declaration order.
C11_IndexIsPosition ==
    versions # <<>> =>
        LET declared == Declared
        IN  /\ \A i \in DOMAIN mooncake_sources : get_index(mooncake_sources[i]) = i - 1
            /\ \A i, j \in DOMAIN mooncake_sources :
                  get_index(mooncake_sources[i]) = get_index(mooncake_sources[j]) => i = j
            /\ Len(mooncake_sources) = Len(declared)
            /\ \A i \in DOMAIN mooncake_sources :
                  /\ mooncake_sources[i].kind = declared[i].kind
                  /\ SourceId(mooncake_sources[i]) = declared[i].id

\* an ad-hoc URL given together with a file that declares a repository and a
\* package: three sources
C11_Witness ==
    /\ versions # <<>>
    /\ cmd.repo_url # None /\ cmd.file # None
    /\ Len(mooncake_sources) = 3
    /\ mooncake_sources[3].kind = "MooncakesIO"

\* C12 as claimed: after a successful run the dated file holds the lines it held
\* before, followed by the line of this run, and the latest copy equals it.
C12_LineAppended ==
    pc = "exit0" =>
        /\ files.dated = Append(EarlierFiles.dated, to_string(result[1].val))
        /\ files.latest = files.dated
        /\ files.cut = {}

\* C12: after a successful run the dated file holds exactly one line, the
\* dashboard of this run, whatever earlier runs of the same OS and date had
\* written to it, and the latest copy equals the dated file.
C12_LineReplacesFile ==
    pc = "exit0" =>
        /\ files.dated = <<to_string(result[1].val)>>
        /\ files.latest = files.dated
        /\ files.cut = {}

\* a successful run on a day whose dated file already held a line of an earlier
\* run: that line is gone
C12_Witness ==
    /\ pc = "exit0"
    /\ EarlierFiles.dated # <<>>
    /\ \A k \in DOMAIN files.dated : files.dated[k] # EarlierFiles.dated[1]
    /\ Len(result[1].val.sources) >= 2

EntriesOf(name) == {i \in DOMAIN repos.mooncakes : replace(repos.mooncakes[i].name) = name}

\* C13: the list update_mooncakes_list writes has, for every name of the registry
\* listing that is not excluded, exactly one entry, with the last version of the
\* listing; no excluded name is in the list; the list is ordered by name.
C13_LatestList ==
    upc = "done" =>
        /\ \A key \in DOMAIN db :
              replace(key) \notin exclude =>
                  /\ Cardinality(EntriesOf(replace(key))) = 1
                  /\ \A i \in EntriesOf(replace(key)) :
                        repos.mooncakes[i].version = db[key][Len(db[key])]
        /\ \A i \in DOMAIN repos.mooncakes : replace(repos.mooncakes[i].name) \notin exclude
        /\ \A i, j \in DOMAIN repos.mooncakes :
              i < j => ~StrLess(repos.mooncakes[j].name, repos.mooncakes[i].name)

\* the check, build and test processes started so far, in order
Cells == SelectSeq(log, IsCellEntry)

\* what one pass over running_backend has to start: check, build, test of the
\* first backend, then of the second, ..
PerPass ==
    [j \in 1..(3 * Len(margs.running_backend)) |->
        [kind    |-> <<"check", "build", "test">>[((j - 1) % 3) + 1],
         backend |-> margs.running_backend[((j - 1) \div 3) + 1]]]

\* the entries of running_os that are the host
Matching == {i \in DOMAIN margs.running_os : margs.running_os[i] = host}

\* C14: run_matrix starts check, build and test once each, in that order, for
\* every backend entry under every entry of running_os that is the host,
\* whatever the earlier commands exited with: what has been started is always the
\* beginning of that sequence, and all of it once run_matrix has returned.
C14_EachCommandOnce ==
    mpc \in {"run", "cmd", "returned"} =>
        LET cells   == Cells
            n       == 3 * Len(margs.running_backend)
            perCall == Cardinality(Matching) * n
            done    == Len(returned) * perCall
        IN  /\ Len(cells) <= done + perCall
            /\ mpc = "returned" => Len(cells) = done + perCall
            /\ \A j \in DOMAIN cells :
                  LET want == PerPass[((j - 1) % n) + 1]
                      a    == cells[j].args
                  IN  /\ a[1] = want.kind
                      /\ a[Len(a)] = to_flag(want.backend)

\* run_matrix returned after a check that exited non-zero, having gone on to
\* the build and test of that backend and to a second backend
C14_Witness ==
    /\ mpc = "returned" /\ returned = <<>>
    /\ Len(Cells) >= 6
    /\ Cells[1].outcome = "nonzero"
    /\ Cells[4].args[Len(Cells[4].args)] # Cells[1].args[Len(Cells[1].args)]

\* the first argument of every moon process started so far, in order
Subcommands == [j \in DOMAIN log |-> IF log[j].prog = "moon" THEN log[j].args[1] ELSE log[j].prog]

\* C15 as claimed: the processes of a backend pass are clean, check, build, test:
\* one clean per pass, and nothing between the three commands.
C15_CleanOncePerPass ==
    mpc \in {"run", "cmd", "returned"} =>
        \A j \in DOMAIN log :
            Subcommands[j] = <<"clean", "check", "build", "test">>[((j - 1) % 4) + 1]

\* C15: the processes of a backend pass are clean, check, clean, build, clean,
\* test: moon clean is started before each of the three commands, three times
\* per pass, and nothing else is started between them; the three commands carry
\* the flag of the backend of the pass.
C15_CleanBeforeEachCommand ==
    mpc \in {"run", "cmd", "returned"} =>
        \* a command is about to follow the moon clean that has just run
        /\ Len(log) = 2 * Len(Cells) + (IF mpc = "cmd" THEN 1 ELSE 0)
        /\ \A j \in DOMAIN log :
              /\ log[j].prog = "moon"
              /\ log[j].args[1] =
                    <<"clean", "check", "clean", "build", "clean", "test">>[((j - 1) % 6) + 1]
              /\ j % 2 = 0 =>
                    log[j].args[Len(log[j].args)]
                        = to_flag(margs.running_backend[
                              ((((j \div 2) - 1) % (3 * Len(margs.running_backend))) \div 3) + 1])

\* two backend passes have run, twelve processes, and the clean before a build
\* failed without keeping the build from running
C15_Witness ==
    /\ mpc = "returned"
    /\ Len(log) >= 12
    /\ log[3].outcome # "ok"
    /\ log[4].outcome = "ok"

\* the check, build or test processes started for a command and backend
CellsOf(c, b) ==
    {j \in DOMAIN log : /\ IsCellEntry(log[j])
                        /\ log[j].args[1] = c
                        /\ log[j].args[Len(log[j].args)] = to_flag(b)}

Occurrences(l, x) == Cardinality({i \in DOMAIN l : l[i] = x})

Max(S) == CHOOSE x \in S : \A y \in S : y <= x

\* C16: when k > 1 entries of running_os are the host, every call of run_matrix
\* runs check, build and test of a selected backend k times for each time the
\* backend is listed, and the slot of the returned CBT holds the result of the
\* last of these executions.
C16_LastMatchWins ==
    (mret # None /\ mret[1].ok /\ Cardinality(Matching) > 1) =>
        \A b \in Range(margs.running_backend), c \in CommandFields :
            LET runs == CellsOf(c, b)
                slot == mret[1].val[c][BackendField(b)]
            IN  /\ Cardinality(runs)
                      = (Len(returned) + 1) * Cardinality(Matching)
                            * Occurrences(margs.running_backend, b)
                /\ slot.start_time = <<log[Max(runs)].end>>
                /\ slot.status = "Success" <=> log[Max(runs)].outcome = "ok"

\* the host is listed twice; the check of the first pass failed, the check of
\* the second succeeded, and the CBT reports Success
C16_Witness ==
    /\ mret # None /\ mret[1].ok /\ returned = <<>>
    /\ Cardinality(Matching) = 2
    /\ \E b \in Range(margs.running_backend) :
          /\ Cardinality(CellsOf("check", b)) = 2
          /\ \E j \in CellsOf("check", b) : log[j].outcome = "nonzero"
          /\ mret[1].val["check"][BackendField(b)].status = "Success"

\* the step of stat a process belongs to: 1 install, 2 update, 3 version
\* discovery, 4 a build
Step(e) ==
    IF \/ e.prog = "bash"
       \/ e.prog = "curl" /\ e.args[1] = "-fsSL"
       \/ e.prog = "powershell" /\ e.args[1] = "-Command"
       \/ e.prog = "moon" /\ e.args[1] = "version" /\ Len(e.args) = 2
    THEN 1
    ELSE IF e.prog = "moon" /\ e.args[1] = "update" THEN 2
    ELSE IF e.prog = "moonc" \/ (e.prog = "moon" /\ e.args[1] = "version") THEN 3
    ELSE 4

\* the steps of the first n entries of the log
Steps(n) == [j \in 1..n |-> Step(log[j])]

\* where a log with steps st goes back to an earlier step, or from two version
\* discoveries to a third
Restarts(st, early) ==
    {j \in early \ {1} :
        \/ st[j] < st[j - 1]
        \/ /\ st[j] = 3 /\ st[j - 1] = 3
           /\ Cardinality({i \in 1..(j - 1) : st[i] = 3}) = 2}

\* the first process of the bleeding channel, if it has started
BleedingStart ==
    LET st == Steps(Len(log))
        rs == Restarts(st, {j \in DOMAIN st : st[j] < 4})
    IN  IF rs = {} THEN Len(log) + 1 ELSE Max(rs)

\* the install script run for the bleeding channel
IsBleedingInstall(e) ==
    \/ e.prog = "bash" /\ Len(e.args) = 2
    \/ e.prog = "powershell" /\ e.args[1] = "-Command" /\ e.args[3] = "bleeding"

\* the source a clone or a download is made for
FetchedId(e) ==
    IF e.prog = "git" THEN e.args[2]
    ELSE IF e.prog = "powershell" THEN e.args[2]
    ELSE e.args[4]

\* install, update, version, builds in source order, within the segment seg of
\* a log with steps st
ChannelInOrder(seg, st, before, tempdirs) ==
    LET builds   == tempdirs \cap seg
        early    == before \cap seg
        versions_ == {j \in early : st[j] = 3}
    IN  /\ Cardinality(versions_) <= 2
        /\ versions_ # {} =>
              /\ ~cmd.skip_install => \E j \in early : st[j] = 1
              /\ ~cmd.skip_update => \E j \in early : st[j] = 2
        /\ early # seg => Cardinality(versions_) = 2
        /\ Cardinality(builds) <= Len(mooncake_sources)
        /\ \A k \in 1..Cardinality(builds) :
              LET t == Nth(builds, k)
              IN  (log[t].outcome = "ok" /\ t + 1 \in DOMAIN log) =>
                      FetchedId(log[t + 1]) = SourceId(mooncake_sources[k])
        /\ (result # None /\ result[1].ok) => Cardinality(builds) = Len(mooncake_sources)

\* the log of a run so far is the stable channel, then the bleeding channel
StableThenBleeding ==
    pc # "none" =>
        LET st       == Steps(Len(log))
            \* the processes that are not part of a build, and the calls of tempdir
            before   == {j \in DOMAIN st : st[j] < 4}
            tempdirs == TempdirIdx
            rs       == Restarts(st, before)
            start    == IF rs = {} THEN Len(log) + 1 ELSE Max(rs)
            stable   == 1..(start - 1)
            bleeding == start..Len(log)
        IN  /\ Cardinality(rs) <= 1
            /\ ChannelInOrder(stable, st, before, tempdirs)
            /\ ChannelInOrder(bleeding, st, before, tempdirs)
            /\ \A j \in before :
                  (st[j] = 1 /\ log[j].prog \in {"bash", "powershell"}) =>
                      (IsBleedingInstall(log[j]) <=> j >= start)
            /\ bleeding # {} =>
                  /\ Len(stable_release_data) = Len(mooncake_sources)
                  /\ Cardinality(tempdirs \cap stable) = Len(mooncake_sources)
                  /\ channel = "Bleeding"
            /\ Len(bleeding_release_data) > 0 => channel = "Bleeding"

\* C17: at every moment of a run the log is the stable channel, then the
\* bleeding channel, each of them install, update, version discovery and then
\* one build per source in source-list order; nothing of the bleeding channel
\* starts before the stable channel has a BuildState for every source.
C17_StableThenBleeding == []StableThenBleeding

\* a successful run with install and update in both channels and two sources
C17_Witness ==
    /\ result # None /\ result[1].ok
    /\ ~cmd.skip_install /\ ~cmd.skip_update
    /\ Len(mooncake_sources) = 2
    /\ \E j \in DOMAIN log : j >= BleedingStart /\ IsBleedingInstall(log[j])

\* the temporary directory a process of build works in
DirOf(e) ==
    CASE e.prog = "git" /\ e.args[1] = "clone"    -> e.args[3]
      [] e.prog = "git" /\ e.args[1] = "checkout" -> e.args[2][1]
      [] e.prog = "curl"                          -> e.args[2]
      [] e.prog = "unzip"                         -> e.args[1]
      [] e.prog = "powershell" /\ e.args[1] = "Invoke-WebRequest" -> e.args[4]
      [] e.prog = "powershell" /\ e.args[1] = "Expand-Archive"    -> e.args[2]

IsFetchEntry(e) ==
    \/ e.prog \in {"git", "unzip"}
    \/ e.prog = "curl" /\ e.args[1] = "-o"
    \/ e.prog = "powershell" /\ e.args[1] \in {"Invoke-WebRequest", "Expand-Archive"}

\* the temporary directories created before process j
CreatedBefore(j) ==
    Cardinality({i \in 1..(j - 1) : log[i].prog = "tempdir" /\ log[i].outcome = "ok"})

\* C18: every call of build works in a directory of its own, created by that
\* call, and the directory is gone once build has returned, with a BuildState
\* or with an error; at most one temporary directory exists at any moment.
C18_TempDirOwned ==
    [](pc # "none" =>
          /\ Cardinality(livedirs) <= 1
          /\ bpc \in {"none", "entry", "returned"} => livedirs = {}
          /\ bpc \in {"clone", "loop", "matrix"} =>
                /\ tmp # None
                /\ livedirs = {tmp[1]}
                /\ tmp[1] = CreatedBefore(Len(log) + 1)
          /\ (bpc = "matrix" /\ mpc # "idle") => margs.workdir[1] = tmp[1]
          /\ LET created == {i \in DOMAIN log : log[i].prog = "tempdir" /\ log[i].outcome = "ok"}
             IN  \A j \in DOMAIN log :
                    IsFetchEntry(log[j]) =>
                        /\ log[j - 1].prog = "tempdir" => log[j - 1].outcome = "ok"
                        /\ DirOf(log[j]) = Cardinality({i \in created : i < j}))

\* the clone of the third build of a run failed: build returned an error and
\* no temporary directory is left
C18_Witness ==
    /\ bpc = "returned" /\ ~bret[1].ok
    /\ ntmp >= 3
    /\ livedirs = {}
    /\ log[Len(log)].prog = "git"

CheckoutIdx == {j \in DOMAIN log : IsCheckout(log[j])}

\* C19: for a Git source, build clones once, before any checkout, and then
\* checks out the declared revisions one after the other, in declaration order,
\* in the directory of that clone; a failed checkout gives None for its revision
\* and the revisions after it are still checked out, in the same clone, and
\* tested.
C19_OneCloneManyCheckouts ==
    (bpc # "none" /\ bsrc.kind = "Git") =>
        /\ Cardinality(CloneIdx) <= 1
        /\ Cardinality(CheckoutIdx) <= Len(bsrc.rev)
        /\ \A k \in 1..Cardinality(CheckoutIdx) :
              LET j == Nth(CheckoutIdx, k)
              IN  /\ log[j].args[3] = bsrc.rev[k]
                  /\ \E i \in CloneIdx :
                        /\ i < j /\ log[i].outcome = "ok"
                        /\ log[j].args[2] = <<log[i].args[3], log[i].args[4]>>
        /\ bpc \in {"loop", "matrix"} => Cardinality(CloneIdx) = 1
        /\ (bret # None /\ bret[1].ok) =>
              /\ Cardinality(CloneIdx) = 1
              /\ Cardinality(CheckoutIdx) = Len(bsrc.rev)
              /\ \A k \in 1..Len(bsrc.rev) :
                    LET j == Nth(CheckoutIdx, k)
                    IN  /\ bret[1].val.cbts[k] # None <=> log[j].outcome = "ok"
                        /\ (/\ log[j].outcome = "ok"
                            /\ \E i \in DOMAIN bsrc.running_os : bsrc.running_os[i] = host
                            /\ bsrc.running_backend # <<>>)
                               => IsCellEntry(log[j + 2])

\* the checkout of the first of two revisions failed, the second was checked
\* out in the same clone and tested, and build returned a BuildState
C19_Witness ==
    /\ bret # None /\ bret[1].ok
    /\ bsrc.kind = "Git" /\ Len(bsrc.rev) = 2
    /\ log[Nth(CheckoutIdx, 1)].outcome # "ok"
    /\ \E j \in DOMAIN log : j > Nth(CheckoutIdx, 2) /\ IsCellEntry(log[j])

\* the local of run_matrix that receives the result of a command, by the
\* subcommand and the --target flag of the command
LocalOf(sub, flag) ==
    CASE sub = "check" /\ flag = "wasm"    -> "check_wasm"
      [] sub = "check" /\ flag = "wasm-gc" -> "check_wasm_gc"
      [] sub = "check" /\ flag = "js"      -> "check_js"
      [] sub = "check" /\ flag = NativeFlag -> "check_native"
      [] sub = "build" /\ flag = "wasm"    -> "build_wasm"
      [] sub = "build" /\ flag = "wasm-gc" -> "build_wasm_gc"
      [] sub = "build" /\ flag = "js"      -> "build_js"
      [] sub = "build" /\ flag = NativeFlag -> "build_native"
      [] sub = "test"  /\ flag = "wasm"    -> "test_wasm"
      [] sub = "test"  /\ flag = "wasm-gc" -> "test_wasm_gc"
      [] sub = "test"  /\ flag = "js"      -> "test_js"
      [] sub = "test"  /\ flag = NativeFlag -> "test_native"

\* the name of a registry source, or the URL of a repository source, has the
\* organisation name in it
NamesOrganisation(source) ==
    LET s == IF source.kind = "Git" THEN source.url ELSE source.name
    IN  \E i \in DOMAIN s : s[i] = "moonbitlang"

\* the values of Backend::to_flag
Flags == {"wasm", "wasm-gc", "js"}

\* C20: every check, build or test that run_matrix starts is `<sub> -q --target
\* <flag>`, where test alone has --build-only before --target, and has it
\* exactly when neither the name (registry) nor the URL (repository) of the
\* source contains "moonbitlang"; the flag is that of the backend in whose
\* local the result of the command is stored.
C20_TestFormByClassification ==
    [][\A j \in (Len(log) + 1)..Len(log') :
          IsCellEntry(log'[j]) =>
             LET a    == log'[j].args
                 flag == a[Len(a)]
                 full == <<a[1], "-q", "--target", flag>>
                 only == <<a[1], "-q", "--build-only", "--target", flag>>
             IN  /\ flag \in Flags \cup {NativeFlag}
                 /\ a[1] \in {"check", "build"} => a = full
                 /\ a[1] = "test" =>
                       a = IF NamesOrganisation(margs.source) THEN full ELSE only
                 /\ slots'[LocalOf(a[1], flag)].start_time = <<log'[j].end>>
      ]_vars

\* one run has tested a package of the organisation in full and compiled the
\* tests of a package that is not, and both kinds of source have been checked
C20_Witness ==
    /\ \E j \in DOMAIN log : log[j].prog = "moon" /\ log[j].args[1] = "test" /\ Len(log[j].args) = 4
    /\ \E j \in DOMAIN log : log[j].prog = "moon" /\ log[j].args[1] = "test" /\ Len(log[j].args) = 5
    /\ \E j \in DOMAIN log : log[j].prog = "moon" /\ log[j].args[1] = "check"

Ended == pc \in {"exit0", "exit1"}

\* C21: a run in which every process started exits comes to its end, with the
\* dashboard written (exit 0) or with an error (exit 1: the error of stat, and
\* then nothing is written, or the error of writing the files, and then each
\* file is the earlier one, the new line, or cut); a run that waits for a
\* process that never exits takes no further step, and has written nothing.
C21_TerminatesUnlessHung ==
    /\ <>(hung \/ Ended)
    /\ [][~hung]_vars
    /\ [](hung => (~Ended /\ files = EarlierFiles))
    /\ [](pc = "exit0" => /\ result[1].ok
                          /\ files.dated = <<to_string(result[1].val)>>
                          /\ files.latest = files.dated
                          /\ files.cut = {})
    /\ [](pc = "exit1" =>
            /\ ~result[1].ok => files = EarlierFiles
            /\ result[1].ok =>
                  /\ files # [dated |-> <<to_string(result[1].val)>>,
                              latest |-> <<to_string(result[1].val)>>, cut |-> {}]
                  /\ \A f \in {"dated", "latest"} :
                        \/ files[f] = EarlierFiles[f] /\ f \notin files.cut
                        \/ files[f] = <<to_string(result[1].val)>> /\ f \notin files.cut
                        \/ files[f] = <<>> /\ f \in files.cut)

\* moon build of the bleeding channel never exits, after moon check and two moon
\* clean of the same arm have: the stable data is complete, the result of the
\* check is assigned and nothing is written
C21_Witness ==
    /\ hung
    /\ channel = "Bleeding" /\ mpc = "cmd" /\ ci = 2
    /\ \E v \in Locals : slots[v].status # "Skipped"
    /\ Len(stable_release_data) = Len(mooncake_sources)
    /\ files = EarlierFiles

\* the locals of run_matrix that belong to a backend
LocalsOf(backend) == {LocalOf(c, to_flag(backend)) : c \in CommandFields}

\* C22: a step of run_matrix for backend b changes none of the nine locals of
\* the other backends, on every host; and in the CBT returned, the slot of
\* command c and backend b is either skip_result or the result of an execution
\* of `moon c .. --target <flag of b>`.
C22_SlotsOfOwnBackend ==
    /\ [][(mpc = "run" \/ mpc = "cmd") =>
            \A v \in Locals :
               slots'[v] # slots[v] => v \in LocalsOf(margs.running_backend[bi])]_vars
    /\ []((mret # None /\ mret[1].ok) =>
            \A c \in CommandFields, b \in Backend :
               LET slot == mret[1].val[c][BackendField(b)]
               IN  IF slot.status = "Skipped"
                   THEN slot = skip_result
                   ELSE \E j \in DOMAIN log :
                           /\ log[j].args[1] = c
                           /\ log[j].args[Len(log[j].args)] = to_flag(b)
                           /\ slot.start_time = <<log[j].end>>
                           /\ slot.status = "Success" <=> log[j].outcome = "ok")

\* on a Windows host run_matrix has returned after the arms of native and wasm:
\* six slots are filled and the other six are skip_result
C22_Witness ==
    /\ mret # None /\ mret[1].ok
    /\ host = "Windows"
    /\ margs.running_backend = <<"Native", "Wasm">>
    /\ \A c \in CommandFields :
          /\ mret[1].val[c]["native"].status # "Skipped"
          /\ mret[1].val[c]["wasm"].status # "Skipped"
          /\ mret[1].val[c]["js"] = skip_result
          /\ mret[1].val[c]["wasm_gc"] = skip_result

\* build is working on the source made from the ad-hoc repository URL
AdHocBuild ==
    /\ cmd.repo_url # None
    /\ bpc # "none"
    /\ bsrc = mooncake_sources[1]

\* C23: the source made from an ad-hoc repository URL is the first of the list
\* and has no revision; every process of its build, in the stable and in the
\* bleeding channel, is the clone of that URL (after the tempdir call): no
\* checkout and no moon command; build returns a BuildState with source 0 and
\* empty cbts, and that is what both release data lists hold for it.
C23_AdHocCloneOnly ==
    /\ []((cmd.repo_url # None /\ mooncake_sources # <<>>) =>
             /\ mooncake_sources[1].kind = "Git"
             /\ mooncake_sources[1].url = cmd.repo_url[1]
             /\ mooncake_sources[1].rev = <<>>
             /\ get_index(mooncake_sources[1]) = 0)
    /\ [][(AdHocBuild /\ log' # log) =>
             /\ Len(log') = Len(log) + 1
             /\ LET e == log'[Len(log')]
                IN  \/ e.prog = "tempdir"
                    \/ /\ e.prog = "git" /\ e.args[1] = "clone"
                       /\ e.args[2] = cmd.repo_url[1]
                       /\ log[Len(log)].prog = "tempdir"]_vars
    /\ []((AdHocBuild /\ bpc = "returned" /\ bret[1].ok) =>
             /\ bret[1].val = [source |-> 0, cbts |-> <<>>]
             /\ log[Len(log)].prog = "git" /\ log[Len(log)].args[1] = "clone"
             /\ log[Len(log)].outcome = "ok"
             /\ mpc = "idle")
    /\ [](cmd.repo_url # None =>
             /\ stable_release_data # <<>> =>
                   stable_release_data[1] = [source |-> 0, cbts |-> <<>>]
             /\ bleeding_release_data # <<>> =>
                   bleeding_release_data[1] = [source |-> 0, cbts |-> <<>>])

\* the ad-hoc repository has been cloned and built in both channels, next to a
\* declared repository
C23_Witness ==
    /\ cmd.repo_url # None /\ cmd.file # None
    /\ Ended
    /\ Len(stable_release_data) = 3 /\ Len(bleeding_release_data) = 3
    /\ stable_release_data[1].cbts = <<>> /\ bleeding_release_data[1].cbts = <<>>
    /\ stable_release_data[2].cbts # <<>>

\* the ExecuteResults of the BuildStates of a channel
ReleaseResults(data) == UNION {ListResults(data[k].cbts) : k \in DOMAIN data}

\* the results of the cells attempted so far in the run
Attempted ==
    {x \in AllResults \cup ReleaseResults(stable_release_data)
                      \cup ReleaseResults(bleeding_release_data) : x.start_time # <<>>}

\* C24: the start_time stored for a cell that has just been attempted is not
\* earlier than the moment its command completed, so later than the moment the
\* command was started, and not earlier than the start_time of any cell
\* attempted before it in the run.
C24_StartTimeAfterCommand ==
    [][\A j \in (Len(log) + 1)..Len(log') :
          IsCellEntry(log'[j]) =>
             LET a == log'[j].args
                 x == slots'[LocalOf(a[1], a[Len(a)])]
             IN  /\ x.start_time # <<>>
                 /\ x.start_time[1] >= log'[j].end
                 /\ x.start_time[1] > log'[j].start
                 /\ \A y \in Attempted : y.start_time[1] <= x.start_time[1]
                 /\ \A i \in (Len(log) + 1)..(j - 1) :
                       IsCellEntry(log'[i]) =>
                          slots'[LocalOf(log'[i].args[1], log'[i].args[Len(log'[i].args)])]
                              .start_time[1] <= x.start_time[1]
      ]_vars

\* a run that has ended with cells attempted in the stable and in the bleeding
\* channel, those of the bleeding channel later
C24_Witness ==
    /\ pc = "exit0"
    /\ \E x \in ReleaseResults(stable_release_data) :
       \E y \in ReleaseResults(bleeding_release_data) :
          /\ x.start_time # <<>> /\ y.start_time # <<>>
          /\ x.start_time[1] < y.start_time[1]

====
